---- MODULE Spec2Model ----
(***************************************************************************)
(* Model of the generic Sequelize repository (src/repository.js), of the   *)
(* service over it (src/unnamed/part_000), of the controller over the      *)
(* service (src/controller.js) and of the table they read and write.       *)
(*                                                                         *)
(* The table is a set of rows.  A row is a function from the model's       *)
(* attribute names to values.  A where-condition is a function from a      *)
(* subset of attribute names to the value the attribute must equal.        *)
(* The caller's condition object is a heap object: the methods that take   *)
(* a condition receive it by reference, so what they assign to it is seen  *)
(* by the caller afterwards (cobj), while corig keeps what the caller      *)
(* wrote into the object when creating it.                                 *)
(*                                                                         *)
(* A method is an async function: it runs up to its first await, and from  *)
(* one await to the next, without any other call running.  A method that   *)
(* awaits the store once is one action, taken at that store call.  A       *)
(* method that awaits the store twice (updateDataById, deleteDataById: the *)
(* findOne, then the save or the destroy) and a handler that awaits the    *)
(* service twice (Controller.updateData, Controller.deleteData) is one     *)
(* action per await; between two of them the calls of other callers run,   *)
(* and inflight holds the calls that are between two awaits.  last holds   *)
(* the call that has just returned, until its caller takes the outcome     *)
(* (Return).                                                               *)
(*                                                                         *)
(* The model of the README (UserModel) is defined with timestamps: the     *)
(* table has the columns createdAt and updatedAt.  A record created gets    *)
(* both; a record updated gets in updatedAt the time it was when the       *)
(* update or the save was called, which for a save is some time between    *)
(* the fetch of the record and the statement.  clock counts the seconds    *)
(* that have passed; a second passes between two steps (Tick).             *)
(***************************************************************************)
EXTENDS Integers, Sequences, FiniteSets, Bags, TLC

\* ------------------------------------------------------------------ bounds
MaxId == 2
\* The calls that are between two awaits at one time.
MaxInflight == 2
\* The searches that are between two awaits at one time.
MaxSearches == 1
\* The seconds that pass on the store's clock.
MaxClock == 1

Ids == 1..MaxId
Names == {"amy", "jo"}

\* --------------------------------------------------------------- variables
VARIABLES
    constructed,             \* what the repository was constructed with: the arguments
                             \* softDeleteKey and softDeleteDefaultValue of new Repository,
                             \* and the primaryKeyAttribute of the model given
    softDeleteKey,           \* Repository.#softDeleteKey ("null": constructed with null)
                             \* ("": constructed with the empty string, as the README does)
    softDeleteDefaultValue,  \* Repository.#softDeleteDefaultValue
    messages,                \* Repository.#messages
    store,                   \* the table behind Repository.#model: a set of rows
    inflight,                \* the calls between two of their awaits: a bag
    cobj,                    \* the caller's condition object, as it is now
    corig,                   \* what the caller wrote into that object
    clock,                   \* the store's clock: the seconds passed since the first call
    last                     \* the last call: its arguments, the table before it, its outcome

vars ==
    <<constructed, softDeleteKey, softDeleteDefaultValue, messages, store, inflight, cobj, corig,
      clock, last>>

\* ------------------------------------------------------------ entity schema
PrimaryKey == "userId"
NameField == "name"
AgeField == "age"
FlagField == "deleteFlag"
\* timestamps: true adds the two columns the store itself maintains.
CreatedAtField == "createdAt"
UpdatedAtField == "updatedAt"
\* A null softDeleteKey used as a computed property name is the property
\* "null": a name that is no column.
NullKey == "null"
\* The softDeleteKey of a repository constructed with the empty string
\* (README: super(UserModel, "", false)): the property "".
EmptyKey == ""
\* What a repository is constructed with as its softDeleteKey: the tombstone
\* column of the model, null (the default), or the empty string.
SoftDeleteKeys == {FlagField, NullKey, EmptyKey}
\* A column the model does not have.
UnknownField == "email"

\* The columns of the model's table (README, UserModel): the attributes it
\* declares and, timestamps being on, createdAt and updatedAt.  The table has
\* them whatever the repository over it is constructed with.
SchemaFields ==
    {PrimaryKey, NameField, AgeField, FlagField, CreatedAtField, UpdatedAtField}

\* The columns that hold a time: a DATETIME, kept as the second of the
\* store's clock it was written at.
TimeFields == {CreatedAtField, UpdatedAtField}

\* The time it is: what Sequelize reads (new Date()) when create(), save() or
\* update() is called, to fill the timestamps it then sends with the
\* statement.
Now == clock

\* The value of a column that has no default and that no caller supplies: NULL.
NullValue == -1

\* ------------------------------------------------------ conditions, objects
SeqRange(s) == {s[i] : i \in 1..Len(s)}

EmptyWhere == [k \in {} |-> 0]

Put(f, k, v) == [x \in (DOMAIN f) \cup {k} |-> IF x = k THEN v ELSE f[x]]

IdWhere(id) == [k \in {PrimaryKey} |-> id]

\* A condition argument: null, undefined (the argument is omitted), or an
\* object holding equalities.  isNull is what condition == null gives.
NullCond == [isNull |-> TRUE, undef |-> FALSE, eq |-> EmptyWhere]
UndefinedCond == [isNull |-> TRUE, undef |-> TRUE, eq |-> EmptyWhere]
Cond(eq) == [isNull |-> FALSE, undef |-> FALSE, eq |-> eq]

\* --------------------------------------------------------------- outcomes
Ok(type, val) == [status |-> "ok", type |-> type, val |-> val]

\* #messages as the class declares it.
DefaultMessages ==
    [DataNotAvailable |-> "No data available. Please check your request.",
     DataExists |-> "Data already exists. Please check your request.",
     ForeignKeyConstraintError |-> "Invalid data: Please check the associated foreign keys."]

\* The messages argument of the constructor: null, or an object that names
\* some of the messages.
NoMessages == [k \in {} |-> ""]
MessageArgs ==
    {NoMessages,
     [DataNotAvailable |-> "No such user.", DataExists |-> "User already exists."]}

\* if (messages) Object.assign(this.#messages, messages)
WithMessages(override) ==
    [k \in DOMAIN DefaultMessages |->
        IF k \in DOMAIN override THEN override[k] ELSE DefaultMessages[k]]

\* The message of an error: the one given to new Error(...) by the repository
\* (this.#messages.DataNotAvailable), or the text of the error the store or
\* the runtime raised.
\* The runtime names the property that could not be set, here the symbol
\* Op.or.
ErrorMessage(kind) ==
    CASE kind = "DataNotAvailable" -> messages.DataNotAvailable
      [] kind = "UniqueConstraintError" -> "Validation error"
      [] kind = "TypeError" -> "Cannot set properties of null (setting 'Symbol(or)')"

Throw(kind) == [status |-> kind, type |-> "error", val |-> 0, message |-> ErrorMessage(kind)]
IsOk(res) == res.status = "ok"

\* ------------------------------------------------------ the backing store
\* Sequelize writes every key of a where object into the query as a column
\* name, known to the model or not; a where-condition that names a column the
\* table does not have is rejected by the database, and the call that issued
\* it fails with the store's error.  A key that is the empty string names no
\* column: Sequelize writes the value alone into the query (... AND 0), a
\* clause the database takes as false when the value is 0.
\* The key Op.or of a where object holds a list of alternatives; the ones used
\* here are {column: value} and {column: {[Op.like]: pattern}}, kept as the
\* set of [col, like, val], val being the value or the term between the two
\* % of the pattern.
OpOr == "Op.or"

EqItem(col, val) == [col |-> col, like |-> FALSE, val |-> val]
LikeItem(col, term) == [col |-> col, like |-> TRUE, val |-> term]

\* The columns a where object names that the table does not have.
UnknownColumns(where) ==
    UNION {IF k = OpOr THEN {it.col : it \in where[k]} \ SchemaFields
           ELSE {k} \ (SchemaFields \cup {EmptyKey}) : k \in DOMAIN where}

BadWhere(where) == UnknownColumns(where) # {}

\* The text of the database's error: it names the column it does not know
\* (the key a repository constructed without a tombstone field writes into
\* the condition, or a search column that is no column).
UnknownColumn(column) ==
    CASE column = NullKey -> "Unknown column 'null' in 'where clause'"
      [] column = UnknownField -> "Unknown column 'email' in 'where clause'"

\* The error a query under a where object with an unknown column fails with.
Rejected(where) ==
    [status |-> "DatabaseError", type |-> "error", val |-> 0,
     message |-> UnknownColumn(CHOOSE column \in UnknownColumns(where) : TRUE)]

\* The characters of the strings in use.
Chars(str) ==
    CASE str = "amy" -> <<"a", "m", "y">>
      [] str = "jo" -> <<"j", "o">>
      [] str = "o" -> <<"o">>
      [] str = "1" -> <<"1">>
      [] str = "" -> <<>>

DigitChars == <<"0", "1", "2", "3", "4", "5", "6", "7", "8", "9">>

\* A DATETIME as text, 'YYYY-MM-DD hh:mm:ss': the clock starts at
\* 2026-10-30 13:22:11 and counts seconds (fewer than nine here).
TimeText(t) ==
    <<"2", "0", "2", "6", "-", "1", "0", "-", "3", "0", " ",
      "1", "3", ":", "2", "2", ":", "1", DigitChars[t + 2]>>

\* The text the database compares a pattern with: a string as it is, a time
\* as the database writes it, an integer (below 10 here) in decimal.
TextOf(col, v) ==
    IF col = NameField THEN Chars(v)
    ELSE IF col \in TimeFields THEN TimeText(v)
    ELSE <<DigitChars[v + 1]>>

\* A pattern matches no NULL.
IsNull(col, v) == col # NameField /\ v = NullValue

\* text LIKE '%term%'
Contains(text, term) ==
    \E i \in 1..(Len(text) - Len(term) + 1) :
        SubSeq(text, i, i + Len(term) - 1) = term

ItemHolds(row, it) ==
    IF it.like
    THEN /\ ~IsNull(it.col, row[it.col])
         /\ Contains(TextOf(it.col, row[it.col]), Chars(it.val))
    ELSE row[it.col] = it.val

\* The keys of a where object are conjoined; the alternatives under Op.or are
\* disjoined (none holds when the list is empty); the clause of the empty key
\* is its value alone, which holds when it is not 0.
Matches(row, where) ==
    \A k \in DOMAIN where :
        IF k = OpOr THEN \E it \in where[k] : ItemHolds(row, it)
        ELSE IF k = EmptyKey THEN where[k] # 0
        ELSE row[k] = where[k]

Select(tbl, where) == {r \in tbl : Matches(r, where)}

\* Assigning patch to a row (Object.assign / SET): only the patch's fields change.
Merge(row, patch) ==
    [k \in DOMAIN row |-> IF k \in DOMAIN patch THEN patch[k] ELSE row[k]]

\* Model.update(values, {where}): every matching row gets the values.
UpdateWhere(tbl, values, where) ==
    {IF Matches(r, where) THEN Merge(r, values) ELSE r : r \in tbl}

\* The place of a name in the collation order.
NameRank(name) == CASE name = "amy" -> 1 [] name = "jo" -> 2

OrderKey(r, orderBy) ==
    IF orderBy = NameField THEN NameRank(r[orderBy]) ELSE r[orderBy]

\* ORDER BY says nothing of rows of equal order key: the store yields them in
\* an order of its choosing, here by rising or by falling primary key.
TieOrders == {"ASC", "DESC"}

\* The tie order given where no two rows have the same order key.
NoTie == "ASC"

Before(r, q, orderBy, orderDir, tie) ==
    IF OrderKey(r, orderBy) = OrderKey(q, orderBy)
    THEN IF tie = "DESC" THEN r[PrimaryKey] >= q[PrimaryKey]
         ELSE r[PrimaryKey] <= q[PrimaryKey]
    ELSE IF orderDir = "DESC" THEN OrderKey(r, orderBy) > OrderKey(q, orderBy)
         ELSE OrderKey(r, orderBy) < OrderKey(q, orderBy)

\* ORDER BY orderBy orderDir over a set of rows.
RECURSIVE SortRows(_, _, _, _)
SortRows(rows, orderBy, orderDir, tie) ==
    IF rows = {} THEN <<>>
    ELSE LET first == CHOOSE r \in rows : \A q \in rows : Before(r, q, orderBy, orderDir, tie)
         IN  <<first>> \o SortRows(rows \ {first}, orderBy, orderDir, tie)

\* --------------------------------------------------- tombstone injection
\* The accessors of the repository; the service keeps what they returned to
\* its constructor.
getPrimaryKeyField == PrimaryKey
getSoftDeleteOption == softDeleteDefaultValue

\* Service.getPrimaryKeyField: the field the constructor of the service
\* copied from repository.getPrimaryKeyField().
Service_getPrimaryKeyField == getPrimaryKeyField

\* Mutant of EffFlag: a default that is on is not overridden.
EffFlag_DefaultWins(flagArg) ==
    IF softDeleteDefaultValue THEN TRUE ELSE flagArg = "on"

\* softDeleteOption = this.#softDeleteDefaultValue when the caller omits it.
EffFlag(flagArg) ==
    IF flagArg = "default" THEN softDeleteDefaultValue ELSE flagArg = "on"

\* let whereCondition = {[pk]: id}; if (softDeleteOption) whereCondition[key] = 0
WhereById(id, flag) ==
    IF flag THEN Put(IdWhere(id), softDeleteKey, 0) ELSE IdWhere(id)

\* if (condition == null) condition = {}; if (softDeleteOption) condition[key] = 0
WhereOf(c, flag) ==
    LET e == IF c.isNull THEN EmptyWhere ELSE c.eq
    IN  IF flag THEN Put(e, softDeleteKey, 0) ELSE e

\* The caller's object after the call: the assignment above is made to the
\* object the caller passed, unless the caller passed null.
CallerAfter(c, flag) ==
    IF c.isNull THEN c ELSE [c EXCEPT !.eq = WhereOf(c, flag)]

\* ------------------------------------------------------------- repository
\* Every method below is given the table and its arguments and yields the
\* table afterwards and the method's outcome.
Out(tbl, res) == [store |-> tbl, res |-> res]

\* Model.create fills the attributes the data leaves out with their defaults
\* (deleteFlag: defaultValue 0; age: none, NULL) and the two timestamps with
\* the time of the insert.
NewRow(data) ==
    [k \in SchemaFields |->
        IF k \in DOMAIN data THEN data[k]
        ELSE IF k = FlagField THEN 0
        ELSE IF k \in TimeFields THEN Now
        ELSE NullValue]

\* instance.save(): UPDATE ... SET <the changed attributes> WHERE pk = instance.pk
Changed(before, after) ==
    [k \in {x \in DOMAIN after : x \in DOMAIN before => after[x] # before[x]} |-> after[k]]

\* save() and Model.update() add updatedAt to the values they send: now, the
\* time it was when they were called (not the time the statement is run).
Stamped(values, now) == Put(values, UpdatedAtField, now)

\* instance.save() called at the time now, its statement run on tbl.  No
\* attribute of the model changed: no statement is issued.
Save(tbl, before, after, now) ==
    IF DOMAIN Changed(before, after) \cap SchemaFields = {} THEN tbl
    ELSE UpdateWhere(tbl, Stamped(Changed(before, after), now), IdWhere(before[PrimaryKey]))

\* The instance after save(): it carries the updatedAt that save() sent.
Saved(before, after, now) ==
    IF DOMAIN Changed(before, after) \cap SchemaFields = {} THEN after
    ELSE Merge(after, Stamped(EmptyWhere, now))

\* Mutant of saveData: the tombstone field the caller supplies is not stored.
saveData_DropsFlag(tbl, data) ==
    LET row == [NewRow(data) EXCEPT ![FlagField] = 0]
    IN  IF \E r \in tbl : r[PrimaryKey] = data[PrimaryKey]
        THEN Out(tbl, Throw("UniqueConstraintError"))
        ELSE Out(tbl \cup {row}, Ok("record", row))

saveData(tbl, data) ==
    IF \E r \in tbl : r[PrimaryKey] = data[PrimaryKey]
    THEN Out(tbl, Throw("UniqueConstraintError"))
    ELSE Out(tbl \cup {NewRow(data)}, Ok("record", NewRow(data)))

\* Model.bulkCreate(data): one INSERT of all the records.  A key the table
\* holds, or that the list holds twice, fails the statement, and no record of
\* the list is stored.
saveBulkData(tbl, datas) ==
    LET keys == {datas[i][PrimaryKey] : i \in 1..Len(datas)}
    IN  IF (\E r \in tbl : r[PrimaryKey] \in keys) \/ Cardinality(keys) < Len(datas)
        THEN Out(tbl, Throw("UniqueConstraintError"))
        ELSE Out(tbl \cup {NewRow(datas[i]) : i \in 1..Len(datas)},
                 Ok("records", [i \in 1..Len(datas) |-> NewRow(datas[i])]))

\* Mutant of findExisting: an error of the store is reported as a missing record.
findExisting_Wrapped(tbl, id, flag) ==
    LET whereCondition == WhereById(id, flag)
    IN  IF BadWhere(whereCondition) THEN Out(tbl, Throw("DataNotAvailable"))
        ELSE IF Select(tbl, whereCondition) = {} THEN Out(tbl, Throw("DataNotAvailable"))
        ELSE Out(tbl, Ok("record", CHOOSE r \in Select(tbl, whereCondition) : TRUE))

\* Mutant of findExisting: the tombstone condition is never added.
findExisting_NoFilter(tbl, id, flag) ==
    IF Select(tbl, IdWhere(id)) = {} THEN Out(tbl, Throw("DataNotAvailable"))
    ELSE Out(tbl, Ok("record", CHOOSE r \in Select(tbl, IdWhere(id)) : TRUE))

\* updateDataById up to its first await: findOne under the key and, when
\* asked, the tombstone condition; it throws when no record is found.
findExisting(tbl, id, flag) ==
    LET whereCondition == WhereById(id, flag)
    IN  IF BadWhere(whereCondition) THEN Out(tbl, Rejected(whereCondition))
        ELSE IF Select(tbl, whereCondition) = {} THEN Out(tbl, Throw("DataNotAvailable"))
        ELSE Out(tbl, Ok("record", CHOOSE r \in Select(tbl, whereCondition) : TRUE))

\* Mutant of saveExisting: the write is not restricted to the fetched record.
saveExisting_AllRows(tbl, existData, data, now) ==
    LET updatedData == Merge(existData, data)
    IN  Out(IF DOMAIN Changed(existData, updatedData) = {} THEN tbl
            ELSE UpdateWhere(tbl, Stamped(Changed(existData, updatedData), now), EmptyWhere),
            Ok("record", Saved(existData, updatedData, now)))

\* Mutant of saveExisting: every attribute of the instance is written.
saveExisting_WholeRow(tbl, existData, data, now) ==
    LET updatedData == Merge(existData, data)
    IN  Out(UpdateWhere(tbl, Stamped(updatedData, now), IdWhere(existData[PrimaryKey])),
            Ok("record", Saved(existData, updatedData, now)))

\* updateDataById from its first await on: Object.assign(existData, data);
\* existData.save(), called at the time now, its statement run on the table
\* as it is by then; the instance is returned.
saveExisting(tbl, existData, data, now) ==
    LET updatedData == Merge(existData, data)
    IN  Out(Save(tbl, existData, updatedData, now),
            Ok("record", Saved(existData, updatedData, now)))

\* updateDataById with no other call between its two awaits.
updateDataById(tbl, id, data, flag) ==
    LET existData == findExisting(tbl, id, flag)
    IN  IF ~IsOk(existData.res) THEN existData
        ELSE saveExisting(tbl, existData.res.val, data, Now)

updateDataWithCondition(tbl, c, data, flag) ==
    LET condition == WhereOf(c, flag)
    IN  IF BadWhere(condition) THEN Out(tbl, Rejected(condition))
        ELSE Out(UpdateWhere(tbl, Stamped(data, Now), condition),
                 Ok("countArray", <<Cardinality(Select(tbl, condition))>>))

deleteDataWithCondition(tbl, c, flag) ==
    LET condition == WhereOf(c, flag)
    IN  IF BadWhere(condition) THEN Out(tbl, Rejected(condition))
        ELSE IF flag
        THEN Out(UpdateWhere(tbl, Stamped([k \in {softDeleteKey} |-> 1], Now), condition),
                 Ok("int", Cardinality(Select(tbl, condition))))
        ELSE Out(tbl \ Select(tbl, condition),
                 Ok("int", Cardinality(Select(tbl, condition))))

\* deleteDataById up to its first await: the same findOne.
findData(tbl, id, flag) ==
    LET whereCondition == WhereById(id, flag)
    IN  IF BadWhere(whereCondition) THEN Out(tbl, Rejected(whereCondition))
        ELSE IF Select(tbl, whereCondition) = {} THEN Out(tbl, Throw("DataNotAvailable"))
        ELSE Out(tbl, Ok("record", CHOOSE r \in Select(tbl, whereCondition) : TRUE))

\* Mutant of removeData: the tombstone is written without the key of the
\* fetched record.
removeData_EveryRow(tbl, data, flag, now) ==
    IF flag
    THEN Out(UpdateWhere(tbl, Stamped([k \in {softDeleteKey} |-> 1], now), EmptyWhere),
             Ok("bool", TRUE))
    ELSE Out(tbl \ Select(tbl, IdWhere(data[PrimaryKey])), Ok("bool", TRUE))

\* Mutant of removeData: the record is destroyed in tombstone mode too.
removeData_Hard(tbl, data, flag, now) ==
    Out(tbl \ Select(tbl, IdWhere(data[PrimaryKey])), Ok("bool", TRUE))

\* deleteDataById from its first await on: data[softDeleteKey] = 1;
\* data.save(), called at the time now, in tombstone mode, data.destroy()
\* otherwise, the statement run on the table as it is by then (a write that
\* finds no row is no error); true is returned.
removeData(tbl, data, flag, now) ==
    IF flag
    THEN Out(Save(tbl, data, Put(data, softDeleteKey, 1), now), Ok("bool", TRUE))
    ELSE Out(tbl \ Select(tbl, IdWhere(data[PrimaryKey])), Ok("bool", TRUE))

\* deleteDataById with no other call between its two awaits.
deleteDataById(tbl, id, flag) ==
    LET data == findData(tbl, id, flag)
    IN  IF ~IsOk(data.res) THEN data
        ELSE removeData(tbl, data.res.val, flag, Now)

getDataById(tbl, id, flag) ==
    LET whereCondition == WhereById(id, flag)
    IN  IF BadWhere(whereCondition) THEN Out(tbl, Rejected(whereCondition))
        ELSE IF Select(tbl, whereCondition) = {} THEN Out(tbl, Ok("null", 0))
        ELSE Out(tbl, Ok("record", CHOOSE r \in Select(tbl, whereCondition) : TRUE))

getAllData(tbl, c, orderBy, orderDir, flag, tie) ==
    LET condition == WhereOf(c, flag)
    IN  IF BadWhere(condition) THEN Out(tbl, Rejected(condition))
        ELSE Out(tbl, Ok("rows", SortRows(Select(tbl, condition), orderBy, orderDir, tie)))

\* Mutant of getSingleDataWithCondition: the last record in the order is returned.
getSingleDataWithCondition_Last(tbl, c, orderBy, orderDir, flag, tie) ==
    LET condition == WhereOf(c, flag)
        rows == SortRows(Select(tbl, condition), orderBy, orderDir, tie)
    IN  IF BadWhere(condition) THEN Out(tbl, Rejected(condition))
        ELSE IF rows = <<>> THEN Out(tbl, Ok("null", 0))
        ELSE Out(tbl, Ok("record", rows[Len(rows)]))

getSingleDataWithCondition(tbl, c, orderBy, orderDir, flag, tie) ==
    LET condition == WhereOf(c, flag)
    IN  IF BadWhere(condition) THEN Out(tbl, Rejected(condition))
        ELSE IF Select(tbl, condition) = {} THEN Out(tbl, Ok("null", 0))
        ELSE Out(tbl, Ok("record", Head(SortRows(Select(tbl, condition), orderBy, orderDir, tie))))

Min(a, b) == IF a <= b THEN a ELSE b

\* Mutant of Page: one record more than the page size is taken.
Page_OneMore(rows, offset, pageSize) ==
    IF offset >= Len(rows) THEN <<>>
    ELSE SubSeq(rows, offset + 1, Min(offset + pageSize + 1, Len(rows)))

\* LIMIT pageSize OFFSET offset over the ordered rows
Page(rows, offset, pageSize) ==
    IF offset >= Len(rows) THEN <<>>
    ELSE SubSeq(rows, offset + 1, Min(offset + pageSize, Len(rows)))

\* Mutant of getDataWithPagination: the page number is taken as 0-based.
getDataWithPagination_ZeroBased(tbl, c, page, pageSize, orderBy, orderDir, flag, tie) ==
    LET offset == page * pageSize
        condition == WhereOf(c, flag)
    IN  IF BadWhere(condition) THEN Out(tbl, Rejected(condition))
        ELSE Out(tbl, Ok("page",
                 [count |-> Cardinality(Select(tbl, condition)),
                  rows |-> Page(SortRows(Select(tbl, condition), orderBy, orderDir, tie),
                                offset, pageSize)]))

getDataWithPagination(tbl, c, page, pageSize, orderBy, orderDir, flag, tie) ==
    LET offset == (page - 1) * pageSize
        condition == WhereOf(c, flag)
    IN  IF BadWhere(condition) THEN Out(tbl, Rejected(condition))
        ELSE Out(tbl, Ok("page",
                 [count |-> Cardinality(Select(tbl, condition)),
                  rows |-> Page(SortRows(Select(tbl, condition), orderBy, orderDir, tie),
                                offset, pageSize)]))

\* Mutant of dataExists: any record of the table counts.
dataExists_AnyRecord(tbl, c, flag) ==
    LET condition == WhereOf(c, flag)
    IN  IF BadWhere(condition) THEN Out(tbl, Rejected(condition))
        ELSE Out(tbl, Ok("bool", Cardinality(tbl) > 0))

dataExists(tbl, c, flag) ==
    LET condition == WhereOf(c, flag)
    IN  IF BadWhere(condition) THEN Out(tbl, Rejected(condition))
        ELSE Out(tbl, Ok("bool", Cardinality(Select(tbl, condition)) > 0))

\* Mutant of getTotalCount: the records of the table are counted, matching or not.
getTotalCount_WholeTable(tbl, c, flag) ==
    LET condition == WhereOf(c, flag)
    IN  IF BadWhere(condition) THEN Out(tbl, Rejected(condition))
        ELSE Out(tbl, Ok("int", Cardinality(tbl)))

getTotalCount(tbl, c, flag) ==
    LET condition == WhereOf(c, flag)
    IN  IF BadWhere(condition) THEN Out(tbl, Rejected(condition))
        ELSE Out(tbl, Ok("int", Cardinality(Select(tbl, condition))))

getMaxData(tbl, c, field, flag) ==
    LET condition == WhereOf(c, flag)
    IN  IF BadWhere(condition) THEN Out(tbl, Rejected(condition))
        ELSE LET values == {r[field] : r \in {q \in Select(tbl, condition) :
                                                   ~IsNull(field, q[field])}}
             IN  IF values = {} THEN Out(tbl, Ok("null", 0))
                 ELSE Out(tbl, Ok("int", CHOOSE m \in values : \A v \in values : v <= m))

\* Object.keys(await model.describe()): the table's column names.
getModelKeys ==
    <<PrimaryKey, NameField, AgeField, FlagField, CreatedAtField, UpdatedAtField>>

\* ---------------------------------------------------------------- service
\* Mutant of SearchCondition: the columns given are searched, known or not.
SearchCondition_Unchecked(searchBy, searchColumns) ==
    {LikeItem(column, searchBy) :
        column \in IF Len(searchColumns) > 0 THEN SeqRange(searchColumns)
                   ELSE SeqRange(getModelKeys)}

\* searchCondition: one {[column]: {[Op.like]: `%${searchBy}%`}} for every
\* given column that is a model key, or for every model key when no column is
\* given.
SearchCondition(searchBy, searchColumns) ==
    LET modelKeys == getModelKeys
    IN  {LikeItem(column, searchBy) :
            column \in IF Len(searchColumns) > 0
                       THEN {x \in SeqRange(searchColumns) : x \in SeqRange(modelKeys)}
                       ELSE SeqRange(modelKeys)}

\* if (searchBy) { ... condition[Op.or] = searchCondition }
WithSearch(c, searchBy, searchColumns) ==
    IF searchBy = "" THEN c
    ELSE [c EXCEPT !.eq = Put(c.eq, OpOr, SearchCondition(searchBy, searchColumns))]

\* Mutant of Ceil: the quotient is rounded down.
Ceil_RoundedDown(count, limit) == count \div limit

\* Math.ceil(count / limit), count >= 0 and limit > 0
Ceil(count, limit) ==
    IF count % limit = 0 THEN count \div limit ELSE (count \div limit) + 1

\* condition = {}: the default of the parameter, taken when the argument is
\* undefined (not when it is null).
DefaultCondition(c) == IF c.undef THEN Cond(EmptyWhere) ELSE c

\* Service.getDataWithPagination from the result of getModelKeys on, over the
\* table as it is then (the columns getModelKeys reads are those of the
\* model, which no call changes).  Assigning to a property of null throws.
Service_getDataWithPagination(tbl, c, page, limit, orderBy, orderDir, searchBy, searchColumns, flag, tie) ==
    LET condition == DefaultCondition(c)
    IN  IF searchBy # "" /\ condition.isNull THEN Out(tbl, Throw("TypeError"))
        ELSE
         LET data == getDataWithPagination(tbl, WithSearch(condition, searchBy, searchColumns),
                                           page, limit, orderBy, orderDir, flag, tie)
         IN  IF ~IsOk(data.res) THEN data
             ELSE Out(tbl, Ok("envelope",
                      [data |-> data.res.val.rows,
                       currentPage |-> page,
                       limit |-> limit,
                       totalCount |-> data.res.val.count,
                       totalPages |-> Ceil(data.res.val.count, limit)]))

\* The caller's object after Service.getDataWithPagination.
ServiceCallerAfter(c, searchBy, searchColumns, flag) ==
    IF c.isNull THEN c ELSE CallerAfter(WithSearch(c, searchBy, searchColumns), flag)

\* ------------------------------------------------------------- controller
\* Controller.#message, the entries the handlers below use.
ControllerMessage ==
    [DataNotAvailable |-> "No data available. Please check your request.",
     DataCreated |-> "Data saved successfully.",
     DataDeleted |-> "Data deleted successfully.",
     DataUpdated |-> "Data updated successfully.",
     InternalServerError |-> "Server issue, try after some time."]

NoData == [k \in {} |-> 0]

\* What is sent: res.status(status).json({data, message, status}); calls are
\* the methods of the service the handler has called, in order.
Response(status, message, data, calls) ==
    Ok("response", [status |-> status, message |-> message, data |-> data, calls |-> calls])

\* handleError(res, error, status = 500, message = InternalServerError): data is {}
handleError(status, message, calls) == Response(status, message, NoData, calls)

\* handleSuccess(res, data, status, message)
handleSuccess(data, status, message, calls) == Response(status, message, data, calls)

\* Controller.saveData: service.saveData(req.body), answered 201 with the
\* record; whatever the service throws is caught and answered 500.
Controller_saveData(tbl, data) ==
    LET saved == saveData(tbl, data)
    IN  IF ~IsOk(saved.res)
        THEN Out(tbl, handleError(500, ControllerMessage.InternalServerError, <<"saveData">>))
        ELSE Out(saved.store,
                 handleSuccess([saveData |-> saved.res.val], 201,
                               ControllerMessage.DataCreated, <<"saveData">>))

ControllerOps == {"Controller.updateData", "Controller.deleteData"}

\* The write the handler asks of the service.
WriteOf(op) == IF op = "Controller.updateData" THEN "updateDataById" ELSE "deleteDataById"

\* Controller.updateData and Controller.deleteData up to their first await:
\* service.dataExists({[pk]: id}) under the service's default flag.  The
\* handler ends there when the check throws (caught: 500) or finds no record
\* (400); otherwise it goes on.
Controller_checkExists(tbl, id) ==
    LET existData == dataExists(tbl, Cond(IdWhere(id)), getSoftDeleteOption).res
    IN  IF ~IsOk(existData)
        THEN handleError(500, ControllerMessage.InternalServerError, <<"dataExists">>)
        ELSE IF ~existData.val
        THEN handleError(400, ControllerMessage.DataNotAvailable, <<"dataExists">>)
        ELSE Ok("checked", TRUE)

\* From the first await to the second: service.updateDataById(id, req.body)
\* or service.deleteDataById(id) up to its findOne.  What the service throws
\* there is caught: 500.
Controller_fetch(tbl, op, id) ==
    LET read == IF op = "Controller.updateData"
                THEN findExisting(tbl, id, getSoftDeleteOption).res
                ELSE findData(tbl, id, getSoftDeleteOption).res
    IN  IF ~IsOk(read)
        THEN handleError(500, ControllerMessage.InternalServerError,
                         <<"dataExists", WriteOf(op)>>)
        ELSE read

\* From the second await on: the save (called at the time now) or the destroy
\* of the service's method, and the answer 200.
Controller_write(tbl, op, existData, data, now) ==
    IF op = "Controller.updateData"
    THEN LET updatedData == saveExisting(tbl, existData, data, now)
         IN  Out(updatedData.store,
                 handleSuccess([updatedData |-> updatedData.res.val], 200,
                               ControllerMessage.DataUpdated,
                               <<"dataExists", "updateDataById">>))
    ELSE Out(removeData(tbl, existData, getSoftDeleteOption, now).store,
             handleSuccess(NoData, 200, ControllerMessage.DataDeleted,
                           <<"dataExists", "deleteDataById">>))

\* A request handled with no other call between its awaits.
Controller_handle(tbl, op, id, data) ==
    LET check == Controller_checkExists(tbl, id)
        read == Controller_fetch(tbl, op, id)
    IN  IF check.type # "checked" THEN Out(tbl, check)
        ELSE IF read.type # "record" THEN Out(tbl, read)
        ELSE Controller_write(tbl, op, read.val, data, Now)

Controller_updateData(tbl, id, data) == Controller_handle(tbl, "Controller.updateData", id, data)

Controller_deleteData(tbl, id) == Controller_handle(tbl, "Controller.deleteData", id, NoData)

\* ------------------------------------------------------------------ inputs
\* softDeleteOption is omitted, or given explicitly against the default (given
\* explicitly and equal to the default, a call runs exactly as with it omitted).
FlagArgs == {"default", IF softDeleteDefaultValue THEN "off" ELSE "on"}

\* The arguments a repository is constructed with: the model of the README,
\* a tombstone key or none, the default of the tombstone flag.
ConstructorArgs ==
    [primaryKeyAttribute : {PrimaryKey}, softDeleteKey : SoftDeleteKeys,
     softDeleteDefaultValue : BOOLEAN]

\* The records a caller creates: id and name, and the tombstone field or not.
NewData ==
    {[k \in {PrimaryKey, NameField} |-> IF k = PrimaryKey THEN i ELSE n] :
        i \in Ids, n \in Names}
    \cup {[k \in {PrimaryKey, NameField, FlagField} |->
              IF k = PrimaryKey THEN i ELSE IF k = NameField THEN n ELSE f] :
              i \in Ids, n \in Names, f \in {0, 1}}

\* The records created through the service: one name for each id, the
\* tombstone field left out or set.
ServiceNewData ==
    {[userId |-> 1, name |-> "amy"], [userId |-> MaxId, name |-> "jo"],
     [userId |-> 1, name |-> "amy", deleteFlag |-> 1],
     [userId |-> MaxId, name |-> "jo", deleteFlag |-> 1]}

\* The lists a caller creates in one call: two records, live or tombstoned,
\* and a list that holds a key twice.
BulkData ==
    {<<[userId |-> 1, name |-> "amy"], [userId |-> 2, name |-> "jo"]>>,
     <<[userId |-> 1, name |-> "amy", deleteFlag |-> 1],
       [userId |-> 2, name |-> "jo", deleteFlag |-> 1]>>,
     <<[userId |-> 1, name |-> "amy"], [userId |-> 1, name |-> "jo"]>>}

\* The patches a caller sends: one attribute of the model, never the key.
Patches == {[k \in {NameField} |-> n] : n \in Names} \cup {[k \in {FlagField} |-> 1]}

\* The condition objects a caller builds (an omitted condition is taken by
\* the repository as null is).
CondPool ==
    {NullCond, Cond(EmptyWhere), Cond([k \in {NameField} |-> "jo"]),
     Cond([k \in {FlagField} |-> 1])}

\* A call is given a condition object the caller has just built, or the
\* object the caller passed to an earlier call.
CondArgs(reuse) == IF reuse THEN {cobj} ELSE CondPool

ServiceOp == "Service.getDataWithPagination"

\* The methods that return a field of the repository or of the service.
AccessorOps == {"getPrimaryKeyField", "getSoftDeleteOption", "Service.getPrimaryKeyField"}

\* ------------------------------------------------- transactional context
\* The transaction argument of a call: null (the default), or a transaction
\* the caller has started.
NoTransaction == "null"
Transactions == {NoTransaction, "t1"}

\* The calls made on the model and its instances by the call c, in order,
\* each with the transaction option it is given, when the caller supplies
\* the transaction argument transaction.  The second call of updateDataById
\* and of deleteDataById is made when the first has found a record;
\* getModelKeys takes no transaction and gives describe() none; the handlers
\* of the controller give the service none.
StoreCalls(c, transaction) ==
    LET With(fn) == [fn |-> fn, transaction |-> transaction]
        Without(fn) == [fn |-> fn, transaction |-> NoTransaction]
    IN  CASE c.op = "none" -> <<>>
          [] c.op = "saveData" -> <<With("create")>>
          [] c.op = "saveBulkData" -> <<With("bulkCreate")>>
          [] c.op = "updateDataById" ->
                 IF IsOk(c.res) THEN <<With("findOne"), With("save")>>
                 ELSE <<With("findOne")>>
          [] c.op = "updateDataWithCondition" -> <<With("update")>>
          [] c.op = "deleteDataWithCondition" ->
                 IF c.flag THEN <<With("update")>> ELSE <<With("destroy")>>
          [] c.op = "deleteDataById" ->
                 IF ~IsOk(c.res) THEN <<With("findOne")>>
                 ELSE IF c.flag THEN <<With("findOne"), With("save")>>
                 ELSE <<With("findOne"), With("destroy")>>
          [] c.op \in {"getDataById", "getSingleDataWithCondition"} -> <<With("findOne")>>
          [] c.op = "getAllData" -> <<With("findAll")>>
          [] c.op = "getDataWithPagination" -> <<With("findAndCountAll")>>
          [] c.op \in {"dataExists", "getTotalCount"} -> <<With("count")>>
          [] c.op = "getMaxData" -> <<With("max")>>
          [] c.op = "Controller.saveData" -> <<Without("create")>>
          [] c.op \in ControllerOps ->
                 <<Without("count")>>
                 \o (IF Len(c.res.val.calls) < 2 THEN <<>>
                     ELSE <<Without("findOne")>>
                          \o (IF c.res.val.status # 200 THEN <<>>
                              ELSE IF c.op = "Controller.updateData" \/ c.flag
                              THEN <<Without("save")>> ELSE <<Without("destroy")>>))
          [] c.op \in AccessorOps -> <<>>
          [] c.op = ServiceOp ->
                 (IF c.data.searchBy # "" THEN <<Without("describe")>> ELSE <<>>)
                 \o (IF c.data.searchBy # "" /\ DefaultCondition(c.arg).isNull THEN <<>>
                     ELSE <<With("findAndCountAll")>>)

\* No record: what a call that has fetched none has read.
NoRow == [k \in {} |-> 0]

\* What is kept of a call: its arguments, the record it fetched before its
\* write (updateDataById, deleteDataById and the handlers over them), the
\* table before its last store call, its outcome and, for each transaction
\* argument the caller may have given (the outcome does not depend on it),
\* the calls it made on the store.
Recorded(c) ==
    [op |-> c.op, id |-> c.id, flagArg |-> c.flagArg, flag |-> c.flag, arg |-> c.arg,
     data |-> c.data, read |-> c.read, pre |-> c.pre, res |-> c.res,
     calls |-> [transaction \in Transactions |-> StoreCalls(c, transaction)]]

NoCall ==
    Recorded([op |-> "none", id |-> 0, flagArg |-> "default", flag |-> FALSE,
              arg |-> NullCond, data |-> EmptyWhere, read |-> NoRow, pre |-> {},
              res |-> Ok("null", 0)])

\* A call between two awaits: its arguments, the await it is at, the record
\* it holds and the time it was when it fetched the record.
Pending(op, pc, id, data, flagArg, existData, fetchedAt) ==
    [op |-> op, pc |-> pc, id |-> id, data |-> data, flagArg |-> flagArg,
     existData |-> existData, fetchedAt |-> fetchedAt]

\* The times save() may be called at by a call that fetched its record at the
\* time p.fetchedAt and whose statement is run now: save() is called when the
\* fetch has returned, and the statement is run after that.
SaveTimes(p) == p.fetchedAt..Now

Init ==
    /\ constructed \in ConstructorArgs
    /\ softDeleteKey = constructed.softDeleteKey
    /\ softDeleteDefaultValue = constructed.softDeleteDefaultValue
    /\ messages = WithMessages(NoMessages)
    /\ store = {}
    /\ inflight = EmptyBag
    /\ cobj = NullCond
    /\ corig = NullCond
    /\ clock = 0
    /\ last = NoCall

Config == <<constructed, softDeleteKey, softDeleteDefaultValue, messages>>

\* A step is taken when the outcome of the call that returned before it has
\* been taken.
Idle == last.op = "none"

\* A call starts when fewer than MaxInflight calls are between two awaits.
CanStart == Idle /\ BagCardinality(inflight) < MaxInflight

\* A call that takes an id and awaits the store once.
ByIdCall(op, id, flagArg, data, out) ==
    /\ Idle
    /\ store' = out.store
    /\ last' = Recorded([op |-> op, id |-> id, flagArg |-> flagArg,
                          flag |-> EffFlag(flagArg), arg |-> NullCond, data |-> data,
                          read |-> NoRow, pre |-> store, res |-> out.res])
    /\ UNCHANGED <<Config, clock, inflight, cobj, corig>>

\* A call that takes a condition object c.
CondCall(op, reuse, c, flagArg, data, out) ==
    /\ Idle
    /\ store' = out.store
    /\ cobj' = CallerAfter(c, EffFlag(flagArg))
    /\ corig' = IF reuse THEN corig ELSE c
    /\ last' = Recorded([op |-> op, id |-> 0, flagArg |-> flagArg,
                          flag |-> EffFlag(flagArg), arg |-> c, data |-> data,
                          read |-> NoRow, pre |-> store, res |-> out.res])
    /\ UNCHANGED <<Config, clock, inflight>>

\* saveData(data): one await, the insert.
SaveDataCall(data) ==
    /\ Idle
    /\ store' = saveData(store, data).store
    /\ last' = Recorded([NoCall EXCEPT !.op = "saveData", !.id = data[PrimaryKey],
                                       !.data = data, !.pre = store,
                                       !.res = saveData(store, data).res])
    /\ UNCHANGED <<Config, clock, inflight, cobj, corig>>

SaveData == \E data \in NewData : SaveDataCall(data)

SaveBulkData ==
    \E data \in BulkData :
        /\ Idle
        /\ store' = saveBulkData(store, data).store
        /\ last' = Recorded([NoCall EXCEPT !.op = "saveBulkData", !.data = data,
                                           !.pre = store,
                                           !.res = saveBulkData(store, data).res])
        /\ UNCHANGED <<Config, clock, inflight, cobj, corig>>

\* The first await of a call that fetches by id.  The call ends there when
\* the fetch throws; otherwise it is between its awaits, holding the record.
Fetch(op, id, data, flagArg, read) ==
    /\ CanStart
    /\ IF IsOk(read.res)
       THEN /\ inflight' = inflight (+) SetToBag({Pending(op, "read", id, data, flagArg,
                                                           read.res.val, Now)})
            /\ UNCHANGED last
       ELSE /\ last' = Recorded([op |-> op, id |-> id, flagArg |-> flagArg,
                                 flag |-> EffFlag(flagArg), arg |-> NullCond,
                                 data |-> data, read |-> NoRow, pre |-> store,
                                 res |-> read.res])
            /\ UNCHANGED inflight
    /\ UNCHANGED <<Config, clock, store, cobj, corig>>

\* The second await of the call p: the statement of its write, run on the
\* table as it is now.
Write(p, out) ==
    /\ Idle
    /\ store' = out.store
    /\ inflight' = inflight (-) SetToBag({p})
    /\ last' = Recorded([op |-> p.op, id |-> p.id, flagArg |-> p.flagArg,
                         flag |-> EffFlag(p.flagArg), arg |-> NullCond,
                         data |-> p.data, read |-> p.existData, pre |-> store,
                         res |-> out.res])
    /\ UNCHANGED <<Config, clock, cobj, corig>>

UpdateRead ==
    \E id \in Ids, data \in Patches, flagArg \in FlagArgs :
        Fetch("updateDataById", id, data, flagArg,
              findExisting(store, id, EffFlag(flagArg)))

UpdateWrite ==
    \E p \in BagToSet(inflight) :
        /\ p.op = "updateDataById"
        /\ \E now \in SaveTimes(p) :
               Write(p, saveExisting(store, p.existData, p.data, now))

DeleteRead ==
    \E id \in Ids, flagArg \in FlagArgs :
        Fetch("deleteDataById", id, EmptyWhere, flagArg,
              findData(store, id, EffFlag(flagArg)))

DeleteWrite ==
    \E p \in BagToSet(inflight) :
        /\ p.op = "deleteDataById"
        /\ \E now \in SaveTimes(p) :
               Write(p, removeData(store, p.existData, EffFlag(p.flagArg), now))

GetDataById ==
    \E id \in Ids, flagArg \in FlagArgs :
        ByIdCall("getDataById", id, flagArg, EmptyWhere,
                 getDataById(store, id, EffFlag(flagArg)))

UpdateDataWithCondition ==
    \E reuse \in BOOLEAN, data \in Patches, flagArg \in FlagArgs :
        \E c \in CondArgs(reuse) :
            CondCall("updateDataWithCondition", reuse, c, flagArg, data,
                     updateDataWithCondition(store, c, data, EffFlag(flagArg)))

DeleteDataWithCondition ==
    \E reuse \in BOOLEAN, flagArg \in FlagArgs :
        \E c \in CondArgs(reuse) :
            CondCall("deleteDataWithCondition", reuse, c, flagArg, EmptyWhere,
                     deleteDataWithCondition(store, c, EffFlag(flagArg)))

\* The default ordering: orderBy = this.#primaryKey, orderDir = "DESC".
DefaultOrder == [orderBy |-> PrimaryKey, orderDir |-> "DESC", tie |-> NoTie]

\* The orderings a caller asks for: none (the default), the primary key
\* rising, the name rising; with the tie order the store then chooses.
OrderArgs ==
    {DefaultOrder, [orderBy |-> PrimaryKey, orderDir |-> "ASC", tie |-> NoTie]}
    \cup {[orderBy |-> NameField, orderDir |-> "ASC", tie |-> tie] : tie \in TieOrders}

GetAllData ==
    \E reuse \in BOOLEAN, flagArg \in FlagArgs, order \in OrderArgs :
        \E c \in CondArgs(reuse) :
            CondCall("getAllData", reuse, c, flagArg, order,
                     getAllData(store, c, order.orderBy, order.orderDir,
                                EffFlag(flagArg), order.tie))

GetSingleDataWithCondition ==
    \E reuse \in BOOLEAN, flagArg \in FlagArgs, order \in OrderArgs :
        \E c \in CondArgs(reuse) :
            CondCall("getSingleDataWithCondition", reuse, c, flagArg, order,
                     getSingleDataWithCondition(store, c, order.orderBy, order.orderDir,
                                                EffFlag(flagArg), order.tie))

PageNumbers == {1, 2}
PageSizes == {1, 2}

GetDataWithPagination ==
    \E reuse \in BOOLEAN, flagArg \in FlagArgs, page \in PageNumbers, pageSize \in PageSizes :
        \E c \in CondArgs(reuse) :
            CondCall("getDataWithPagination", reuse, c, flagArg,
                     [page |-> page, pageSize |-> pageSize],
                     getDataWithPagination(store, c, page, pageSize, PrimaryKey, "DESC",
                                           EffFlag(flagArg), NoTie))

DataExists ==
    \E reuse \in BOOLEAN, flagArg \in FlagArgs :
        \E c \in CondArgs(reuse) :
            CondCall("dataExists", reuse, c, flagArg, EmptyWhere,
                     dataExists(store, c, EffFlag(flagArg)))

GetTotalCount ==
    \E reuse \in BOOLEAN, flagArg \in FlagArgs :
        \E c \in CondArgs(reuse) :
            CondCall("getTotalCount", reuse, c, flagArg, EmptyWhere,
                     getTotalCount(store, c, EffFlag(flagArg)))

\* The fields a caller asks the maximum of: the numeric ones that hold values.
MaxFields == {PrimaryKey, AgeField, FlagField}

GetMaxData ==
    \E reuse \in BOOLEAN, flagArg \in FlagArgs, field \in MaxFields :
        \E c \in CondArgs(reuse) :
            CondCall("getMaxData", reuse, c, flagArg, [field |-> field],
                     getMaxData(store, c, field, EffFlag(flagArg)))

\* The search arguments a caller sends: no term, a term that is part of a
\* name (columns given, known and unknown), a term that is a digit (columns
\* omitted).
SearchArgs ==
    {[searchBy |-> "", searchColumns |-> <<>>],
     [searchBy |-> "", searchColumns |-> <<NameField>>],
     [searchBy |-> "o", searchColumns |-> <<UnknownField, NameField>>],
     [searchBy |-> "o", searchColumns |-> <<UnknownField>>],
     [searchBy |-> "1", searchColumns |-> <<>>]}

\* The service is given null, nothing (undefined), and objects, some holding
\* a combinator of the caller.
ServiceCondArgs(reuse) ==
    IF reuse THEN {cobj}
    ELSE {NullCond, UndefinedCond, Cond(EmptyWhere), Cond([k \in {NameField} |-> "jo"]),
          Cond([k \in {OpOr} |-> {EqItem(NameField, "amy")}])}

\* A search between its two awaits: the arguments it was called with.  The
\* condition is an object, held by reference: the object the caller holds
\* (own FALSE; what it contains is cobj), or an object no other call is given
\* (own TRUE, arg is what it contains): null or nothing was passed, or the
\* caller has since built another object.
Search(own, arg, flagArg, data) ==
    [op |-> ServiceOp, pc |-> "described", own |-> own, arg |-> arg,
     flagArg |-> flagArg, data |-> data]

\* The condition object of the search p as it is now.
ConditionOf(p) == IF p.own THEN p.arg ELSE cobj

\* The searches between their awaits when the caller builds a new object: a
\* search that holds the object the caller held until then keeps it.
Kept(p) == IF p.op = ServiceOp /\ ~p.own THEN [p EXCEPT !.own = TRUE, !.arg = cobj] ELSE p

\* The calls between their awaits after a call that is given the object the
\* caller holds (reuse) or a new one.
Others_inflight(calls, reuse) == IF reuse THEN calls ELSE BagOfAll(Kept, calls)

\* Service.saveData: this.#repository.saveData(data, transaction).
ServiceSaveData == \E data \in ServiceNewData : SaveDataCall(data)

\* The page sizes asked for with a search term.
SearchPageSizes == {MaxId}

\* Service.getDataWithPagination from its query on: the condition object,
\* holding c, is given the search clause and handed to the repository, which
\* reads the table as it is now; own: no other call is given the object.
ServiceCall(own, reuse, c, flagArg, data) ==
    LET out == Service_getDataWithPagination(
                   store, c, data.page, data.pageSize, PrimaryKey, "DESC",
                   data.searchBy, data.searchColumns, EffFlag(flagArg), NoTie)
    IN  /\ Idle
        /\ store' = out.store
        /\ cobj' = IF own THEN cobj
                   ELSE ServiceCallerAfter(c, data.searchBy, data.searchColumns,
                                           EffFlag(flagArg))
        /\ corig' = IF reuse THEN corig ELSE c
        /\ last' = Recorded([op |-> ServiceOp, id |-> 0, flagArg |-> flagArg,
                             flag |-> EffFlag(flagArg), arg |-> c, data |-> data,
                             read |-> NoRow, pre |-> store, res |-> out.res])
        /\ UNCHANGED <<Config, clock>>

\* Service.getDataWithPagination with no search term: it awaits the store
\* once.
ServiceGetDataWithPagination ==
    \E reuse \in BOOLEAN, flagArg \in FlagArgs, page \in {1}, limit \in PageSizes,
       search \in {a \in SearchArgs : a.searchBy = ""} :
        \E c \in ServiceCondArgs(reuse) :
            /\ ServiceCall(FALSE, reuse, c, flagArg,
                           [page |-> page, pageSize |-> limit,
                            searchBy |-> search.searchBy,
                            searchColumns |-> search.searchColumns])
            /\ inflight' = Others_inflight(inflight, reuse)

\* Service.getDataWithPagination with a search term, up to its first await:
\* getModelKeys().  The call has its arguments from here on, the condition
\* object among them; nothing is written into the object before the keys are
\* there.
ServiceDescribe ==
    \E reuse \in BOOLEAN, flagArg \in FlagArgs, page \in {1}, limit \in SearchPageSizes,
       search \in {a \in SearchArgs : a.searchBy # ""} :
        \E c \in ServiceCondArgs(reuse) :
            /\ Idle
            /\ BagCardinality(inflight) < MaxSearches
            /\ inflight' = Others_inflight(inflight, reuse)
                           (+) SetToBag({Search(c.isNull, IF c.isNull THEN c ELSE NullCond,
                                                flagArg,
                                                [page |-> page, pageSize |-> limit,
                                                 searchBy |-> search.searchBy,
                                                 searchColumns |-> search.searchColumns])})
            /\ cobj' = c
            /\ corig' = IF reuse THEN corig ELSE c
            /\ UNCHANGED <<Config, clock, store, last>>

\* From the keys of the model on: the search clause is written into the
\* condition object the call was given, as that object is by then, and the
\* repository's page is read from the table as it is by then.
ServiceQuery ==
    \E p \in BagToSet(inflight) :
        /\ p.op = ServiceOp
        /\ ServiceCall(p.own, TRUE, ConditionOf(p), p.flagArg, p.data)
        /\ inflight' = inflight (-) SetToBag({p})

\* The caller takes the outcome of the call.
Return ==
    /\ ~Idle
    /\ last' = NoCall
    /\ UNCHANGED <<Config, clock, store, inflight, cobj, corig>>

\* A second passes on the store's clock, between two steps of the callers.
Tick ==
    /\ Idle
    /\ clock < MaxClock
    /\ clock' = clock + 1
    /\ UNCHANGED <<Config, store, inflight, cobj, corig, last>>

\* A call of an accessor: it returns at once and awaits nothing.
Accessor(op, res) ==
    /\ Idle
    /\ last' = Recorded([op |-> op, id |-> 0, flagArg |-> "default",
                          flag |-> EffFlag("default"), arg |-> NullCond,
                          data |-> EmptyWhere, read |-> NoRow, pre |-> store,
                          res |-> res])
    /\ UNCHANGED <<Config, clock, store, inflight, cobj, corig>>

GetPrimaryKeyField == Accessor("getPrimaryKeyField", Ok("text", getPrimaryKeyField))

GetSoftDeleteOption == Accessor("getSoftDeleteOption", Ok("bool", getSoftDeleteOption))

ServiceGetPrimaryKeyField ==
    Accessor("Service.getPrimaryKeyField", Ok("text", Service_getPrimaryKeyField))

\* The methods of the repository that await the store once.
Next ==
    \/ SaveData
    \/ SaveBulkData
    \/ UpdateDataWithCondition
    \/ DeleteDataWithCondition
    \/ GetDataById
    \/ GetAllData
    \/ GetSingleDataWithCondition
    \/ GetDataWithPagination
    \/ DataExists
    \/ GetTotalCount
    \/ GetMaxData
    \/ Return

Spec == Init /\ [][Next]_vars

\* The service over a table that callers fill: records are created, and read
\* back through Service.getDataWithPagination, a search being the two steps
\* it is made of, with creates and other reads between them.
NextService ==
    \/ ServiceSaveData
    \/ ServiceGetDataWithPagination
    \/ ServiceDescribe
    \/ ServiceQuery
    \/ Return

SpecService == Init /\ [][NextService]_vars

\* updateDataById and deleteDataById, each the two steps it is made of, over
\* a table that callers fill, with the steps of other calls between the two.
NextConcurrent ==
    \/ SaveData
    \/ UpdateRead
    \/ UpdateWrite
    \/ DeleteRead
    \/ DeleteWrite
    \/ GetDataById
    \/ Return

SpecConcurrent == Init /\ [][NextConcurrent]_vars

\* Calls of every kind on one repository and the service over it: creates
\* through the service, the two steps of deleteDataById with the steps of
\* other calls between them, reads by id, counts and deletes that take a
\* condition object, pages read through the service, and the accessors.
NextCalls ==
    \/ ServiceSaveData
    \/ DeleteRead
    \/ DeleteWrite
    \/ GetDataById
    \/ GetTotalCount
    \/ DeleteDataWithCondition
    \/ ServiceGetDataWithPagination
    \/ GetPrimaryKeyField
    \/ GetSoftDeleteOption
    \/ ServiceGetPrimaryKeyField
    \/ Return

SpecCalls == Init /\ [][NextCalls]_vars

\* updateDataById and deleteDataById, each the two steps it is made of, over
\* a table of two live records created in the second the clock starts at,
\* with the steps of other calls and the seconds that pass between the two.
InitClock ==
    /\ constructed \in ConstructorArgs
    /\ softDeleteKey = constructed.softDeleteKey
    /\ softDeleteDefaultValue = constructed.softDeleteDefaultValue
    /\ messages = WithMessages(NoMessages)
    /\ clock = 0
    /\ store = {NewRow([k \in {PrimaryKey, NameField} |->
                            IF k = PrimaryKey THEN 1 ELSE "amy"]),
                NewRow([k \in {PrimaryKey, NameField} |->
                            IF k = PrimaryKey THEN MaxId ELSE "jo"])}
    /\ inflight = EmptyBag
    /\ cobj = NullCond
    /\ corig = NullCond
    /\ last = NoCall

NextClock ==
    \/ UpdateRead
    \/ UpdateWrite
    \/ DeleteRead
    \/ DeleteWrite
    \/ Return
    \/ Tick

SpecClock == InitClock /\ [][NextClock]_vars

\* The page numbers a caller asks for when walking the pages: up to one past
\* the last page a table can have.
PagesWalked == 1..(MaxId + 1)

\* getDataWithPagination with the ordering given by the caller.
GetOrderedPage ==
    \E reuse \in BOOLEAN, flagArg \in FlagArgs, page \in PagesWalked, pageSize \in PageSizes, order \in OrderArgs :
        \E c \in CondArgs(reuse) :
            CondCall("getDataWithPagination", reuse, c, flagArg,
                     [page |-> page, pageSize |-> pageSize, orderBy |-> order.orderBy,
                      orderDir |-> order.orderDir, tie |-> order.tie],
                     getDataWithPagination(store, c, page, pageSize, order.orderBy,
                                           order.orderDir, EffFlag(flagArg), order.tie))

\* Walking the pages of a table that is filled.
NextPages ==
    \/ SaveData
    \/ GetOrderedPage
    \/ Return

SpecPages == Init /\ [][NextPages]_vars

\* The request POST /: one await, answered at once.
ControllerSaveData ==
    \E data \in NewData :
        ByIdCall("Controller.saveData", data[PrimaryKey], "default", data,
                 Controller_saveData(store, data))

\* A request that has been answered.
Answered(op, id, data, existData, res) ==
    last' = Recorded([op |-> op, id |-> id, flagArg |-> "default",
                      flag |-> getSoftDeleteOption, arg |-> NullCond, data |-> data,
                      read |-> existData, pre |-> store, res |-> res])

\* The requests PATCH /:id and DELETE /:id up to the first await of their
\* handler.
ControllerCheck ==
    \E op \in ControllerOps, id \in Ids :
        \E data \in IF op = "Controller.updateData" THEN Patches ELSE {NoData} :
            LET check == Controller_checkExists(store, id)
            IN  /\ CanStart
                /\ IF check.type = "checked"
                   THEN /\ inflight' = inflight (+) SetToBag({Pending(op, "checked", id, data,
                                                                       "default", NoRow, Now)})
                        /\ UNCHANGED last
                   ELSE /\ Answered(op, id, data, NoRow, check)
                        /\ UNCHANGED inflight
                /\ UNCHANGED <<Config, clock, store, cobj, corig>>

\* From the first await to the second.
ControllerFetch ==
    \E p \in BagToSet(inflight) :
        LET read == Controller_fetch(store, p.op, p.id)
        IN  /\ Idle
            /\ p.op \in ControllerOps
            /\ p.pc = "checked"
            /\ IF read.type = "record"
               THEN /\ inflight' = (inflight (-) SetToBag({p}))
                                   (+) SetToBag({[p EXCEPT !.pc = "read",
                                                           !.existData = read.val,
                                                           !.fetchedAt = Now]})
                    /\ UNCHANGED last
               ELSE /\ inflight' = inflight (-) SetToBag({p})
                    /\ Answered(p.op, p.id, p.data, NoRow, read)
            /\ UNCHANGED <<Config, clock, store, cobj, corig>>

\* From the second await on.
ControllerWrite ==
    \E p \in BagToSet(inflight) : \E now \in SaveTimes(p) :
        LET out == Controller_write(store, p.op, p.existData, p.data, now)
        IN  /\ Idle
            /\ p.op \in ControllerOps
            /\ p.pc = "read"
            /\ store' = out.store
            /\ inflight' = inflight (-) SetToBag({p})
            /\ Answered(p.op, p.id, p.data, p.existData, out.res)
            /\ UNCHANGED <<Config, clock, cobj, corig>>

\* The controller over a table that requests fill, the steps of one request
\* between the steps of another.
NextController ==
    \/ ControllerSaveData
    \/ ControllerCheck
    \/ ControllerFetch
    \/ ControllerWrite
    \/ Return

SpecController == Init /\ [][NextController]_vars

\* Repositories constructed with and without messages of their own, under
\* the operations that create.
InitCatalog ==
    /\ constructed \in ConstructorArgs
    /\ softDeleteKey = constructed.softDeleteKey
    /\ softDeleteDefaultValue = constructed.softDeleteDefaultValue
    /\ messages \in {WithMessages(m) : m \in MessageArgs}
    /\ store = {}
    /\ inflight = EmptyBag
    /\ cobj = NullCond
    /\ corig = NullCond
    /\ clock = 0
    /\ last = NoCall

NextCatalog ==
    \/ SaveData
    \/ SaveBulkData
    \/ Return

SpecCatalog == InitCatalog /\ [][NextCatalog]_vars

\* ================================================================= claims
Tombstoned(r) == FlagField \in DOMAIN r /\ r[FlagField] = 1

Live(tbl) == {r \in tbl : ~Tombstoned(r)}

RowById(tbl, id) == CHOOSE r \in tbl : r[PrimaryKey] = id

HasId(tbl, id) == \E r \in tbl : r[PrimaryKey] = id

Others(tbl, id) == {r \in tbl : r[PrimaryKey] # id}

\* What the caller asked for, the tombstone field apart.
\* The store's error for a condition that carries the key of a repository
\* constructed without a tombstone field.
TombstoneKeyRejected == Rejected([k \in {softDeleteKey} |-> 0])

AskedWhere(c) ==
    LET e == IF c.isNull THEN EmptyWhere ELSE c.eq
    IN  [k \in (DOMAIN e) \ {softDeleteKey} |-> e[k]]

\* The rows a filtered call may see: the live rows the caller's condition matches.
InScopeRows(tbl, c) == Select(Live(tbl), AskedWhere(c))

ByIdOps == {"updateDataById", "deleteDataById", "getDataById"}

CondOps == {"updateDataWithCondition", "deleteDataWithCondition", "getAllData",
            "getSingleDataWithCondition", "getDataWithPagination", "dataExists",
            "getTotalCount", "getMaxData"}

\* The calls that fetch a record and then write it.
ByIdWrites == {"updateDataById", "deleteDataById"}

\* What C1 says of what a call returns and counts.
ReturnedInScope ==
    /\ (last.op = "getDataById" /\ last.res.type = "record") =>
           last.res.val \in Live(last.pre)
    /\ (last.op = "getSingleDataWithCondition" /\ last.res.type = "record") =>
           last.res.val \in InScopeRows(last.pre, last.arg)
    /\ last.res.type = "rows" =>
           SeqRange(last.res.val) = InScopeRows(last.pre, last.arg)
    /\ last.res.type = "page" =>
           /\ SeqRange(last.res.val.rows) \subseteq InScopeRows(last.pre, last.arg)
           /\ last.res.val.count = Cardinality(InScopeRows(last.pre, last.arg))
    /\ last.res.type = "countArray" =>
           last.res.val[1] = Cardinality(InScopeRows(last.pre, last.arg))
    /\ last.op \in {"getTotalCount", "deleteDataWithCondition"} =>
           last.res.val = Cardinality(InScopeRows(last.pre, last.arg))
    /\ last.op = "dataExists" =>
           last.res.val = (InScopeRows(last.pre, last.arg) # {})
    /\ (last.op = "getMaxData" /\ last.res.type = "int") =>
           \E r \in InScopeRows(last.pre, last.arg) :
               r[last.data.field] = last.res.val

C1_ReadWitness ==
    /\ last.op = "getAllData" /\ last.flag /\ IsOk(last.res)
    /\ Len(last.res.val) > 0
    /\ \E r \in Select(last.pre, AskedWhere(last.arg)) : Tombstoned(r)

\* C2: on a repository constructed with the tombstone key and filtering on by
\* default, after deleteById(id) has succeeded on a record that is in the
\* table at its write, getById(id) with the default filter returns null and
\* getById(id) with the filter off returns the record, its tombstone field 1
\* and its other fields as they were before the write.
C2_SoftDeleteThenGet ==
    (/\ softDeleteKey = FlagField /\ softDeleteDefaultValue
     /\ last.op = "deleteDataById" /\ last.flagArg = "default" /\ IsOk(last.res)
     /\ HasId(last.pre, last.id)) =>
        /\ getDataById(store, last.id, EffFlag("default")).res = Ok("null", 0)
        /\ getDataById(store, last.id, FALSE).res
               = Ok("record", Put(RowById(last.pre, last.id), FlagField, 1))

C2_Witness ==
    /\ softDeleteKey = FlagField /\ softDeleteDefaultValue
    /\ last.op = "deleteDataById" /\ last.flagArg = "default" /\ IsOk(last.res)
    /\ \E r \in last.pre : r[PrimaryKey] = last.id /\ r[FlagField] = 0
    /\ Others(store, last.id) # {}

\* C3: on a repository constructed without a tombstone key and with filtering
\* off by default, after
\* deleteById(id) has succeeded, getById(id) returns null with the filter on
\* and with the filter off.
C3_HardDeleteThenGet ==
    (/\ softDeleteKey = NullKey /\ ~softDeleteDefaultValue
     /\ last.op = "deleteDataById" /\ IsOk(last.res)) =>
        /\ getDataById(store, last.id, TRUE).res = Ok("null", 0)
        /\ getDataById(store, last.id, FALSE).res = Ok("null", 0)

\* What the code does there: the read with the filter on is rejected by the
\* store, the read with the filter off returns null.  (On a repository
\* constructed with the empty string the filtered read finds no record, and
\* returns null as well.)
C3_FilteredReadRejected ==
    (/\ softDeleteKey = NullKey /\ ~softDeleteDefaultValue
     /\ last.op = "deleteDataById" /\ IsOk(last.res)) =>
        /\ getDataById(store, last.id, TRUE).res = TombstoneKeyRejected
        /\ getDataById(store, last.id, FALSE).res = Ok("null", 0)

\* C4: a call that takes a condition leaves the caller's condition object as
\* the caller passed it.
C4_ConditionUnchanged ==
    last.op \in CondOps => cobj = last.arg

\* The read methods, by name.
ReadOutcome(op, tbl, c, data, flag) ==
    CASE op = "getAllData" ->
             getAllData(tbl, c, data.orderBy, data.orderDir, flag, data.tie).res
      [] op = "getTotalCount" -> getTotalCount(tbl, c, flag).res
      [] op = "dataExists" -> dataExists(tbl, c, flag).res
      [] op = "getDataWithPagination" ->
             getDataWithPagination(tbl, c, data.page, data.pageSize,
                                   PrimaryKey, "DESC", flag, NoTie).res

\* C5: a read made with tombstone filtering off returns what it returns for a
\* fresh condition equal to the one the caller wrote, whatever calls the
\* condition object was passed to before (stated for the repositories
\* constructed with the tombstone key).
C5_ReadIgnoresEarlierCalls ==
    (/\ softDeleteKey = FlagField
     /\ last.op \in {"getAllData", "getTotalCount", "dataExists", "getDataWithPagination"}
     /\ ~last.flag) =>
        last.res = ReadOutcome(last.op, last.pre, corig, last.data, FALSE)

\* A record with the id is in scope: it is in the table and, when filtering is
\* on, its tombstone field is not 1.
InScope(tbl, id, flag) ==
    \E r \in tbl : r[PrimaryKey] = id /\ (flag => ~Tombstoned(r))

\* C6: updateById fails with the record-not-available error whenever no record
\* with the id is in scope at its fetch, and then the table is unchanged.
C6_UpdateByIdNotFound ==
    (/\ last.op = "updateDataById" /\ last.read = NoRow
     /\ ~InScope(last.pre, last.id, last.flag)) =>
        /\ last.res.status = "DataNotAvailable"
        /\ store = last.pre

\* Apart from calls that ask for filtering on a repository without a
\* tombstone key (see C3), C6 holds, and a call ends at its fetch only when
\* no record with the id is in scope.
C6_WithTombstoneField ==
    (last.flag => softDeleteKey = FlagField) =>
        /\ C6_UpdateByIdNotFound
        /\ (last.op = "updateDataById" /\ last.read = NoRow) =>
               ~InScope(last.pre, last.id, last.flag)

\* C7: deleteById returns true exactly when a record with the id was in scope
\* at its fetch; otherwise it fails with the record-not-available error and
\* leaves the table unchanged.
C7_DeleteByIdOutcome ==
    last.op = "deleteDataById" =>
        IF last.read # NoRow
        THEN last.res = Ok("bool", TRUE)
        ELSE /\ ~InScope(last.pre, last.id, last.flag)
             /\ last.res.status = "DataNotAvailable"
             /\ store = last.pre

\* Apart from calls that ask for filtering on a repository without a
\* tombstone key (see C3), C7 holds.
C7_WithTombstoneField ==
    (last.flag => softDeleteKey = FlagField) => C7_DeleteByIdOutcome

\* The record a call holds after its fetch is a record of the table at the
\* fetch, with the id asked for, and live when the call filters.
FetchedInScope ==
    [][\A p \in BagToSet(inflight') :
           (p \notin BagToSet(inflight) /\ p.pc = "read") =>
               /\ p.existData \in store
               /\ p.existData[PrimaryKey] = p.id
               /\ (p.op \in ByIdWrites /\ EffFlag(p.flagArg)) => ~Tombstoned(p.existData)]_vars

\* C8 as claimed: after create, getById on the record's key (default filter)
\* returns a record equal to the created one on every field supplied (stated
\* for the repositories constructed with the tombstone key).
C8_CreateThenGet ==
    (softDeleteKey = FlagField /\ last.op = "saveData" /\ IsOk(last.res)) =>
        LET got == getDataById(store, last.id, EffFlag("default")).res
        IN  /\ got.type = "record"
            /\ \A k \in DOMAIN last.data : got.val[k] = last.data[k]

\* C8 as amended: after create, on every repository, getById with the filter
\* off returns the created record, equal on every field supplied; on a
\* repository constructed with the tombstone field, getById with the filter
\* on returns the same record when the record's tombstone field is 0 and null
\* when the record was created with tombstone field 1.
C8_CreateThenGetAmended ==
    (last.op = "saveData" /\ IsOk(last.res)) =>
        LET off == getDataById(store, last.id, FALSE).res
            on == getDataById(store, last.id, TRUE).res
        IN  /\ off.type = "record"
            /\ off.val = last.res.val
            /\ \A k \in DOMAIN last.data : off.val[k] = last.data[k]
            /\ softDeleteKey = FlagField =>
                   on = IF off.val[FlagField] = 0 THEN off ELSE Ok("null", 0)

\* A record created with its tombstone field supplied as 1, on a repository
\* constructed with the tombstone field and filtering by default.
C8_Witness ==
    /\ last.op = "saveData" /\ IsOk(last.res)
    /\ FlagField \in DOMAIN last.data /\ last.data[FlagField] = 1
    /\ softDeleteKey = FlagField
    /\ softDeleteDefaultValue

\* C9 as claimed: after a successful updateById(id, patch) the stored record
\* has the patch's value in every field of the patch and its previous value in
\* every other field, the returned record is the stored one, and every other
\* record is unchanged.
C9_UpdateByIdMerge ==
    (last.op = "updateDataById" /\ IsOk(last.res)) =>
        /\ HasId(store, last.id)
        /\ Cardinality({r \in store : r[PrimaryKey] = last.id}) = 1
        /\ \A k \in DOMAIN RowById(store, last.id) :
               RowById(store, last.id)[k] =
                   IF k \in DOMAIN last.data THEN last.data[k]
                   ELSE RowById(last.pre, last.id)[k]
        /\ last.res.val = RowById(store, last.id)
        /\ Others(store, last.id) = Others(last.pre, last.id)

\* The fields of the last call's patch whose value differs from the one the
\* call fetched: the fields its save() writes.
PatchChanges ==
    {k \in DOMAIN last.data \cap SchemaFields : last.data[k] # last.read[k]}

\* C9 as amended: after a successful updateById(id, patch) the returned record
\* is the record as the call fetched it with the patch merged onto it,
\* updatedAt apart, and the fetched record itself when the patch changes no
\* field of it; every record with another id is unchanged; the record with
\* the id, when it is still in the table at the write, has the patch's value
\* in every field where the patch differs from the fetched record, in
\* updatedAt the value the returned record carries when there is such a field,
\* and in every other field the value it had just before the write, and a
\* record that is gone is not written.  When no other call has written the
\* record since the fetch, the stored record is the returned one.
C9_UpdateByIdMergeAmended ==
    (last.op = "updateDataById" /\ IsOk(last.res)) =>
        /\ \A k \in SchemaFields \ {UpdatedAtField} :
               last.res.val[k] = Merge(last.read, last.data)[k]
        /\ PatchChanges = {} => last.res.val = last.read
        /\ Others(store, last.id) = Others(last.pre, last.id)
        /\ HasId(store, last.id) = HasId(last.pre, last.id)
        /\ HasId(last.pre, last.id) =>
               /\ Cardinality({r \in store : r[PrimaryKey] = last.id}) = 1
               /\ \A k \in SchemaFields :
                      RowById(store, last.id)[k] =
                          IF k \in PatchChanges THEN last.data[k]
                          ELSE IF k = UpdatedAtField /\ PatchChanges # {}
                          THEN last.res.val[UpdatedAtField]
                          ELSE RowById(last.pre, last.id)[k]
        /\ last.read \in last.pre => last.res.val = RowById(store, last.id)

\* An update that changes the name of one record, which another call has
\* written since the fetch, a second or more after that write, while another
\* record is stored.
C9_Witness ==
    /\ last.op = "updateDataById" /\ IsOk(last.res)
    /\ HasId(last.pre, last.id)
    /\ RowById(store, last.id)[NameField] # RowById(last.pre, last.id)[NameField]
    /\ RowById(store, last.id)[UpdatedAtField] # RowById(last.pre, last.id)[UpdatedAtField]
    /\ last.read \notin last.pre
    /\ Others(store, last.id) # {}

\* C10: updateByCondition returns an integer, the number of records the
\* condition matches (live ones only when filtering is on); the patch is
\* applied to exactly those records; with no match it returns 0.
C10_UpdateByConditionCount ==
    (last.op = "updateDataWithCondition" /\ IsOk(last.res)) =>
        LET hit == Select(IF last.flag THEN Live(last.pre) ELSE last.pre,
                          IF last.flag THEN AskedWhere(last.arg)
                          ELSE WhereOf(last.arg, FALSE))
        IN  /\ last.res.type = "int"
            /\ last.res.val = Cardinality(hit)
            /\ store = {IF r \in hit THEN Merge(r, last.data) ELSE r : r \in last.pre}

\* The equalities of a condition as the caller passed it.
PassedWhere(c) == IF c.isNull THEN EmptyWhere ELSE c.eq

\* What C11 says of one returned deleteByCondition call.
DeleteByConditionAsClaimed ==
    LET hit == Select(IF last.flag THEN Live(last.pre) ELSE last.pre,
                      PassedWhere(last.arg))
    IN  /\ last.res = Ok("int", Cardinality(hit))
        /\ IF last.flag
           THEN /\ store = {IF r \in hit THEN Put(r, FlagField, 1) ELSE r : r \in last.pre}
                /\ deleteDataWithCondition(store, last.arg, TRUE).res = Ok("int", 0)
           ELSE store = last.pre \ hit

\* C11: a deleteByCondition call that returns has, in tombstone mode, set the
\* tombstone field to 1 on exactly the live records the condition matches,
\* kept them, and returned their number, so that the same call made again
\* returns 0; without tombstone mode it has removed exactly the records the
\* condition matches and returned their number (stated for the repositories
\* constructed with the tombstone key).
C11_DeleteByConditionCount ==
    (/\ softDeleteKey = FlagField
     /\ last.op = "deleteDataWithCondition" /\ IsOk(last.res)) =>
        DeleteByConditionAsClaimed

\* The caller's condition asks for tombstoned records while the call filters.
AsksTombstoned(c, flag) ==
    flag /\ FlagField \in DOMAIN PassedWhere(c) /\ PassedWhere(c)[FlagField] = 1

\* The last call did not ask for filtering on a repository constructed
\* without a tombstone field (see C3).
FilterHasField == last.flag => softDeleteKey = FlagField

\* Apart from the calls whose condition asks for tombstoned records while
\* filtering is on, and from the calls that ask for filtering on a repository
\* constructed without a tombstone field (see C3), C11 holds.
C11_OtherConditions ==
    (/\ last.op = "deleteDataWithCondition" /\ IsOk(last.res)
     /\ FilterHasField
     /\ ~AsksTombstoned(last.arg, last.flag)) =>
        DeleteByConditionAsClaimed

\* The records the store query of the last call matches.
Matched == Select(last.pre, WhereOf(last.arg, last.flag))

\* The records in the scope of the last call that satisfy the condition as the
\* caller passed it.
InScopeMatching ==
    Select(IF last.flag THEN Live(last.pre) ELSE last.pre, PassedWhere(last.arg))

\* What C12 says of one returned page, the matching set being the records in
\* scope that satisfy the caller's condition, in descending primary-key order.
PageAsClaimed ==
    LET offset == (last.data.page - 1) * last.data.pageSize
        total == Cardinality(InScopeMatching)
        rows == last.res.val.rows
    IN  /\ last.res.val.count = total
        /\ Len(rows) = IF offset >= total THEN 0
                       ELSE Min(last.data.pageSize, total - offset)
        /\ \A i \in 1..Len(rows) :
               /\ rows[i] \in InScopeMatching
               /\ Cardinality({q \in InScopeMatching : q[PrimaryKey] > rows[i][PrimaryKey]})
                      = offset + i - 1

\* C12: a getPage call with page number p >= 1 and page size s >= 1 returns
\* the records at positions (p-1)*s+1 .. p*s of the matching records taken in
\* descending primary-key order (fewer when the records end earlier, none when
\* (p-1)*s is past the end), and a totalCount that is the number of all
\* matching records (stated for the repositories constructed with the
\* tombstone field).
C12_PagePositions ==
    (/\ softDeleteKey = FlagField
     /\ last.op = "getDataWithPagination" /\ IsOk(last.res)) =>
        PageAsClaimed

\* Apart from the calls whose condition asks for tombstoned records while
\* filtering is on (see C11), and from the calls that ask for filtering on a
\* repository constructed without a tombstone field (see C3), C12 holds.
C12_OtherConditions ==
    (/\ last.op = "getDataWithPagination" /\ IsOk(last.res)
     /\ FilterHasField
     /\ ~AsksTombstoned(last.arg, last.flag)) =>
        PageAsClaimed

\* Among them, a second page that holds a record while the first page holds
\* others.
C12_SecondPage ==
    /\ last.op = "getDataWithPagination" /\ IsOk(last.res)
    /\ FilterHasField /\ ~AsksTombstoned(last.arg, last.flag)
    /\ last.data.page = 2
    /\ Len(last.res.val.rows) = 1
    /\ last.res.val.count > last.data.pageSize

\* A page asked for with a condition on tombstoned records while filtering is
\* on: the live records are paged.
C12_LiveRecordsPaged ==
    /\ last.op = "getDataWithPagination" /\ IsOk(last.res)
    /\ softDeleteKey = FlagField
    /\ AsksTombstoned(last.arg, last.flag)
    /\ InScopeMatching = {}
    /\ last.res.val.count > 0

\* The columns a search over searchColumns is to look at.
ResolvedColumns(searchColumns) ==
    IF Len(searchColumns) > 0 THEN SeqRange(searchColumns) \cap SchemaFields
    ELSE SchemaFields

\* The record holds the term of the last call in one of the columns.
HoldsTerm(r, columns) ==
    \E col \in columns :
        /\ ~IsNull(col, r[col])
        /\ Contains(TextOf(col, r[col]), Chars(last.data.searchBy))

\* The records the repository's getPage is to count in the last call of the
\* service: the records of the table, the live ones when filtering is on,
\* that satisfy every equality the condition object holds when the page is
\* asked for and, when a term is given, hold the term in a resolved column,
\* or else satisfy an alternative of the combinator the object holds, if any.
Counted ==
    LET passed == PassedWhere(last.arg)
        scope == IF ~last.flag THEN last.pre
                 ELSE IF softDeleteKey = FlagField THEN Live(last.pre)
                 ELSE {}
    IN  {r \in scope :
            /\ \A k \in (DOMAIN passed) \ {OpOr, IF last.flag THEN softDeleteKey ELSE OpOr} :
                   IF k = EmptyKey THEN passed[k] # 0 ELSE r[k] = passed[k]
            /\ IF last.data.searchBy # ""
               THEN HoldsTerm(r, ResolvedColumns(last.data.searchColumns))
               ELSE OpOr \in DOMAIN passed => \E it \in passed[OpOr] : ItemHolds(r, it)}

\* C13: searchAndPaginate returns as totalCount the count of the repository's
\* getPage for the augmented condition (the number of records counted, of
\* which the page returned holds the first pageSize), and as totalPages the
\* least number of pages of pageSize records that hold totalCount records: 0
\* exactly when totalCount is 0, and otherwise
\* (totalPages-1)*pageSize < totalCount <= totalPages*pageSize.
C13_TotalPages ==
    (last.op = ServiceOp /\ IsOk(last.res)) =>
        LET totalCount == last.res.val.totalCount
            totalPages == last.res.val.totalPages
            pageSize == last.data.pageSize
            offset == (last.data.page - 1) * pageSize
        IN  /\ totalCount = Cardinality(Counted)
            /\ Len(last.res.val.data) = IF offset >= totalCount THEN 0
                                        ELSE Min(pageSize, totalCount - offset)
            /\ last.res.val.limit = pageSize
            /\ totalPages = 0 <=> totalCount = 0
            /\ totalCount > 0 =>
                   /\ (totalPages - 1) * pageSize < totalCount
                   /\ totalCount <= totalPages * pageSize

\* A search whose count the page size does not divide.
C13_Witness ==
    /\ last.op = ServiceOp /\ IsOk(last.res)
    /\ last.data.searchBy # ""
    /\ last.res.val.totalCount > 0
    /\ last.res.val.totalCount % last.data.pageSize # 0

\* A call with no term that counts more records than a page holds.
C13_SecondPageNeeded ==
    /\ last.op = ServiceOp /\ IsOk(last.res)
    /\ last.data.searchBy = ""
    /\ last.res.val.totalCount > last.data.pageSize
    /\ last.res.val.totalPages = 2

\* The records in the scope of the last call that satisfy the condition as the
\* caller passed it and hold the term in one of the columns.
Found(columns) ==
    {r \in InScopeMatching : HoldsTerm(r, columns)}

\* What C14 says of one returned search.
SearchAsClaimed ==
    LET found == Found(ResolvedColumns(last.data.searchColumns))
    IN  /\ last.res.val.totalCount = Cardinality(found)
        /\ SeqRange(last.res.val.data) \subseteq found
        /\ Cardinality(found) <= last.data.pageSize =>
               SeqRange(last.res.val.data) = found

\* C14: searchAndPaginate with a non-empty search term returns exactly the
\* records that satisfy every constraint of the caller's condition, its
\* equalities and its combinator, and hold the term in at least one resolved
\* column; totalCount is their number.
C14_SearchWithinCondition ==
    (last.op = ServiceOp /\ IsOk(last.res) /\ last.data.searchBy # "") =>
        SearchAsClaimed

\* For the conditions that hold no combinator when passed, C14 holds (apart
\* from the calls that ask for filtering on a repository constructed without
\* a tombstone field, see C3).
C14_WithoutCombinator ==
    (/\ last.op = ServiceOp /\ IsOk(last.res) /\ last.data.searchBy # ""
     /\ FilterHasField
     /\ OpOr \notin DOMAIN PassedWhere(last.arg)) =>
        SearchAsClaimed

\* The equalities of the condition the store is given in the last call, the
\* alternatives under Op.or apart.
Equalities ==
    LET where == WhereOf(last.arg, last.flag)
    IN  [k \in (DOMAIN where) \ {OpOr} |-> where[k]]

\* What C15 says of one search: a column name the schema does not have makes
\* no call fail (a search fails only when the repository's page for the
\* condition fails without the term), and the records counted and returned
\* are the ones that satisfy the equalities of the condition and hold the
\* term in one of the resolved columns.
ColumnsAsClaimed ==
    LET columns == ResolvedColumns(last.data.searchColumns)
        hits == {r \in Select(last.pre, Equalities) : HoldsTerm(r, columns)}
    IN  /\ ~IsOk(last.res) =>
               ~IsOk(getDataWithPagination(last.pre, DefaultCondition(last.arg),
                                           last.data.page,
                                           last.data.pageSize, PrimaryKey, "DESC",
                                           last.flag, NoTie).res)
        /\ IsOk(last.res) =>
               /\ last.res.val.totalCount = Cardinality(hits)
               /\ SeqRange(last.res.val.data) \subseteq hits
               /\ Cardinality(hits) <= last.data.pageSize =>
                      SeqRange(last.res.val.data) = hits

\* C15: in a searchAndPaginate call with a non-empty search term, the columns
\* searched are the given columns that are schema fields when columns are
\* given, and every schema field when none is given: no call fails for its
\* search, and the records counted and returned are the ones that hold the
\* term in one of these columns.
C15_ColumnsSearched ==
    (last.op = ServiceOp /\ last.data.searchBy # "") => ColumnsAsClaimed

\* For the calls that are given a condition object, or none (undefined), C15
\* holds.
C15_ConditionGiven ==
    (/\ last.op = ServiceOp /\ last.data.searchBy # ""
     /\ ~DefaultCondition(last.arg).isNull) =>
        ColumnsAsClaimed

\* A search that is given null for its condition fails when it writes its
\* clause, before the repository is called, and no column is searched.
C15_NullCondition ==
    (/\ last.op = ServiceOp /\ last.data.searchBy # ""
     /\ DefaultCondition(last.arg).isNull) =>
        /\ last.res = Throw("TypeError")
        /\ store = last.pre

\* A search given null over a table whose records hold the term, on a
\* repository whose page for null is returned: the search fails.
C15_NullFails ==
    /\ last.op = ServiceOp /\ last.data.searchBy # ""
    /\ DefaultCondition(last.arg).isNull
    /\ ~IsOk(last.res)
    /\ IsOk(getDataWithPagination(last.pre, DefaultCondition(last.arg), last.data.page,
                                  last.data.pageSize, PrimaryKey, "DESC", last.flag,
                                  NoTie).res)
    /\ \E r \in last.pre : HoldsTerm(r, ResolvedColumns(last.data.searchColumns))

\* A search given an unknown and a known column that finds a record.
C15_Witness ==
    /\ last.op = ServiceOp /\ IsOk(last.res)
    /\ last.data.searchColumns = <<UnknownField, NameField>>
    /\ last.res.val.totalCount > 0
    /\ last.res.val.totalCount < Cardinality(last.pre)

\* C16 as claimed: exists({}) returns true on every non-empty table and false
\* on an empty table (stated for the repositories constructed with the tombstone key).
C16_ExistsOnTable ==
    (/\ softDeleteKey = FlagField
     /\ last.op = "dataExists" /\ last.arg = Cond(EmptyWhere)) =>
        last.res = Ok("bool", last.pre # {})

\* C16 as amended: on every repository, exists({}) with the filter off
\* returns true exactly when the table holds a record; on a repository
\* constructed with the tombstone field, exists({}) with the filter on
\* returns true exactly when the table holds a record whose tombstone field
\* is not 1.
C16_ExistsInScope ==
    (last.op = "dataExists" /\ last.arg = Cond(EmptyWhere)) =>
        /\ ~last.flag => last.res = Ok("bool", last.pre # {})
        /\ (last.flag /\ softDeleteKey = FlagField) =>
               last.res = Ok("bool", Live(last.pre) # {})

\* exists({}) with the filter on, on a repository constructed with the
\* tombstone field, over a table that holds tombstoned records only.
C16_Witness ==
    /\ last.op = "dataExists" /\ last.arg = Cond(EmptyWhere)
    /\ softDeleteKey = FlagField
    /\ last.flag /\ last.flagArg = "default"
    /\ last.pre # {} /\ Live(last.pre) = {}
    /\ last.res = Ok("bool", FALSE)

\* The values the field has in the records in scope that match (a record
\* whose field is NULL has none).
MatchingValues ==
    {r[last.data.field] :
        r \in {q \in InScopeMatching : ~IsNull(last.data.field, q[last.data.field])}}

\* What C17 says of one returned maxOf call.
MaxAsClaimed ==
    IF MatchingValues = {} THEN last.res = Ok("null", 0)
    ELSE /\ last.res.type = "int"
         /\ last.res.val \in MatchingValues
         /\ \A v \in MatchingValues : v <= last.res.val

\* C17: a maxOf call that returns gives the greatest value of the field among
\* the records in scope that match the condition, and null (not 0) when no
\* record in scope matches (stated for the repositories constructed with the
\* tombstone key).
C17_MaxOfField ==
    (softDeleteKey = FlagField /\ last.op = "getMaxData" /\ IsOk(last.res)) =>
        MaxAsClaimed

\* Apart from the calls whose condition asks for tombstoned records while
\* filtering is on (see C11), and from the calls that ask for filtering on a
\* repository constructed without a tombstone field (see C3), C17 holds.
C17_OtherConditions ==
    (/\ last.op = "getMaxData" /\ IsOk(last.res)
     /\ FilterHasField
     /\ ~AsksTombstoned(last.arg, last.flag)) =>
        MaxAsClaimed

\* The sequence is in the order asked for: its order keys fall (DESC) or rise
\* (ASC) along it.
InOrder(rows, orderBy, orderDir) ==
    \A i, j \in 1..Len(rows) :
        i < j => IF orderDir = "DESC"
                 THEN OrderKey(rows[i], orderBy) >= OrderKey(rows[j], orderBy)
                 ELSE OrderKey(rows[i], orderBy) <= OrderKey(rows[j], orderBy)

\* What C18 says of one getAll call.
GetAllAsClaimed ==
    /\ last.res.type = "rows"
    /\ SeqRange(last.res.val) = InScopeMatching
    /\ Len(last.res.val) = Cardinality(InScopeMatching)
    /\ InOrder(last.res.val, last.data.orderBy, last.data.orderDir)

\* C18: getAll returns every record in scope that matches the condition, each
\* once, in the order of the caller's order field and direction (the primary
\* key, descending, when the caller gives none); when nothing matches it
\* returns the empty sequence, never null and never an error (stated for the
\* repositories constructed with the tombstone key).
C18_GetAllOrdered ==
    (softDeleteKey = FlagField /\ last.op = "getAllData") => GetAllAsClaimed

\* Apart from the calls whose condition asks for tombstoned records while
\* filtering is on (see C11), C18 holds on the repositories constructed
\* with the tombstone field, and of every call with the filter off that the
\* store accepts on the others (see C3).
C18_OtherConditions ==
    (last.op = "getAllData" /\ ~AsksTombstoned(last.arg, last.flag)) =>
        IF softDeleteKey = FlagField THEN GetAllAsClaimed
        ELSE (IsOk(last.res) /\ ~last.flag) => GetAllAsClaimed

\* Among them, a getAll by rising name over records of different names.
C18_OrderedByName ==
    /\ last.op = "getAllData" /\ ~AsksTombstoned(last.arg, last.flag)
    /\ IsOk(last.res)
    /\ last.data.orderBy = NameField
    /\ Len(last.res.val) > 1
    /\ last.res.val[1][NameField] # last.res.val[2][NameField]
    /\ last.res.val[1][PrimaryKey] > last.res.val[2][PrimaryKey]

\* getAll for the arguments of the last call, over the table as it was, the
\* store choosing the tie order.
GetAllFor(tie) ==
    getAllData(last.pre, last.arg, last.data.orderBy, last.data.orderDir,
               last.flag, tie).res

\* C19 as claimed: for the same condition, ordering and tombstone flag on an
\* unchanged table, getOne returns the first element of getAll's result, and
\* null exactly when that result is empty; both fail when the store rejects
\* the condition.
C19_GetOneIsFirstOfGetAll ==
    last.op = "getSingleDataWithCondition" =>
        \A tie \in TieOrders :
            IF IsOk(GetAllFor(tie))
            THEN last.res = IF GetAllFor(tie).val = <<>> THEN Ok("null", 0)
                            ELSE Ok("record", Head(GetAllFor(tie).val))
            ELSE last.res = GetAllFor(tie)

\* C19 as amended: getOne returns null exactly when getAll's result is empty,
\* and otherwise a record of getAll's result whose order key is that of its
\* first element: the first element itself when no other record of the result
\* has that order key, as under the primary key and the default ordering,
\* where it is the match with the greatest primary key.
C19_GetOneIsAFirstOfGetAll ==
    last.op = "getSingleDataWithCondition" =>
        \A tie \in TieOrders :
            LET all == GetAllFor(tie)
                first == Head(all.val)
                sameKey == {q \in SeqRange(all.val) :
                               OrderKey(q, last.data.orderBy)
                                   = OrderKey(first, last.data.orderBy)}
            IN  IF ~IsOk(all) THEN last.res = all
                ELSE IF all.val = <<>> THEN last.res = Ok("null", 0)
                ELSE /\ last.res.type = "record"
                     /\ last.res.val \in sameKey
                     /\ sameKey = {first} => last.res.val = first
                     /\ last.data.orderBy = PrimaryKey => last.res.val = first
                     /\ last.data = DefaultOrder =>
                            \A q \in SeqRange(all.val) :
                                q[PrimaryKey] <= last.res.val[PrimaryKey]

\* A getOne by name over two matches of the same name, where getAll's first
\* element is the other one under the other tie order.
C19_Witness ==
    /\ last.op = "getSingleDataWithCondition" /\ IsOk(last.res)
    /\ last.res.type = "record"
    /\ last.data.orderBy = NameField
    /\ \E tie \in TieOrders :
           /\ Len(GetAllFor(tie).val) > 1
           /\ Head(GetAllFor(tie).val) # last.res.val

\* Starting, committing and rolling back a transaction.
TransactionControl == {"transaction", "commit", "rollback"}

\* What C20 says of the calls the last operation made on the store.
Threaded(calls, transaction) ==
    \A i \in 1..Len(calls) :
        /\ calls[i].transaction = transaction
        /\ calls[i].fn \notin TransactionControl

\* C20: whatever transactional context the caller supplies to an operation of
\* the repository or of the service, none included, every call the operation
\* makes on the store carries exactly that context, and none of them starts,
\* commits or rolls back a transaction.
C20_TransactionThreaded ==
    \A transaction \in Transactions : Threaded(last.calls[transaction], transaction)

\* The store calls of the repository's own operations are threaded so, the
\* read and the write of updateById and deleteById included.
C20_RepositoryCalls ==
    last.op # ServiceOp => C20_TransactionThreaded

\* updateById or deleteById has made its read and its write.
C20_ReadAndWrite ==
    /\ last.op \in {"updateDataById", "deleteDataById"}
    /\ \A transaction \in Transactions : Len(last.calls[transaction]) = 2

\* In a search every store call but describe() carries the caller's context.
C20_SearchCallsButDescribe ==
    last.op = ServiceOp =>
        \A transaction \in Transactions :
            \A i \in 1..Len(last.calls[transaction]) :
                last.calls[transaction][i].fn # "describe" =>
                    last.calls[transaction][i].transaction = transaction

\* The condition the service passes to the repository in the last call.
Augmented ==
    WithSearch(DefaultCondition(last.arg), last.data.searchBy, last.data.searchColumns)

\* The error the store raises on the first call the last operation makes on
\* it that it refuses ("none" when it refuses none): a create under a key the
\* table holds, a read or a write under a condition on an unknown column.
StoreRejects ==
    CASE last.op = "saveData" ->
             IF HasId(last.pre, last.id) THEN "UniqueConstraintError" ELSE "none"
      [] last.op = "saveBulkData" ->
             IF \/ \E i \in 1..Len(last.data) : HasId(last.pre, last.data[i][PrimaryKey])
                \/ \E i, j \in 1..Len(last.data) :
                       i # j /\ last.data[i][PrimaryKey] = last.data[j][PrimaryKey]
             THEN "UniqueConstraintError" ELSE "none"
      [] last.op \in ByIdOps ->
             IF BadWhere(WhereById(last.id, last.flag)) THEN "DatabaseError" ELSE "none"
      [] last.op \in CondOps ->
             IF BadWhere(WhereOf(last.arg, last.flag)) THEN "DatabaseError" ELSE "none"
      [] last.op = ServiceOp ->
             IF /\ ~(last.data.searchBy # "" /\ DefaultCondition(last.arg).isNull)
                /\ BadWhere(WhereOf(Augmented, last.flag))
             THEN "DatabaseError" ELSE "none"
      [] OTHER -> "none"

\* The calls that write to the store.
StoreWrites == {"create", "bulkCreate", "save", "update", "destroy"}

\* The call the store refused is the last the operation made, it was made
\* once, and when it was a read no write was made.
StoppedAtFailure(calls) ==
    /\ calls # <<>>
    /\ Cardinality({i \in 1..Len(calls) : calls[i].fn = calls[Len(calls)].fn}) = 1
    /\ calls[Len(calls)].fn \notin StoreWrites =>
           \A i \in 1..Len(calls) : calls[i].fn \notin StoreWrites

\* C21: when a call an operation of the repository or of the service makes
\* on the store fails, the operation fails with that same error, the table is
\* as it was (a failed read in updateById or deleteById is followed by no
\* write), the failed call is the last one made and is made once, and the
\* operation does not return normally.
C21_StoreErrorPropagates ==
    StoreRejects # "none" =>
        /\ last.res = IF StoreRejects = "DatabaseError" THEN TombstoneKeyRejected
                      ELSE Throw(StoreRejects)
        /\ store = last.pre
        /\ \A transaction \in Transactions : StoppedAtFailure(last.calls[transaction])

\* updateById or deleteById on a table that holds the record, whose read the
\* store refused.
C21_Witness ==
    /\ last.op \in {"updateDataById", "deleteDataById"}
    /\ HasId(last.pre, last.id)
    /\ StoreRejects = "DatabaseError"
    /\ last.res.status = "DatabaseError"

\* The service's page read refused by the store.
C21_ServiceWitness ==
    /\ last.op = ServiceOp
    /\ last.pre # {}
    /\ StoreRejects = "DatabaseError"

\* The message the catalog of this repository holds for a create the store
\* rejects under a uniqueness rule.
ConstraintMessage == messages.DataExists

\* A create, of one record or of a list, that the store rejects under a
\* uniqueness rule.
CreateRejected ==
    last.op \in {"saveData", "saveBulkData"} /\ StoreRejects = "UniqueConstraintError"

\* C22: a create that the store rejects because a key is taken fails with
\* an error that carries the catalog's record-already-exists message of this
\* repository, the default one or the one given at construction.
C22_ConstraintMessage ==
    CreateRejected =>
        /\ ~IsOk(last.res)
        /\ last.res.message = ConstraintMessage

\* What holds instead: the create fails with the store's own error, whatever
\* the catalog says, and the table is as it was.
C22_StoreErrorAsIs ==
    CreateRejected =>
        /\ last.res.status = "UniqueConstraintError"
        /\ last.res.message \notin {messages[k] : k \in DOMAIN messages}
        /\ store = last.pre

\* A list of which one key is taken, rejected whole.
C22_ListRejected ==
    /\ last.op = "saveBulkData"
    /\ CreateRejected
    /\ \E i \in 1..Len(last.data) : ~HasId(last.pre, last.data[i][PrimaryKey])

\* The fields of the record id that differ between two tables holding it.
FieldsChanged(before, after, id) ==
    {k \in SchemaFields : RowById(after, id)[k] # RowById(before, id)[k]}

\* C23 as claimed: deleteById changes nothing but its target.  In tombstone
\* mode the table holds as many records after the call as before it, and the
\* only field that differs anywhere is the tombstone field of the target,
\* which goes from 0 to 1 and is 1 after a successful call.  In physical mode
\* a successful call removes exactly the target, and every other record is as
\* it was; a failed call changes nothing.
C23_DeleteByIdFrame ==
    last.op = "deleteDataById" =>
        /\ Others(store, last.id) = Others(last.pre, last.id)
        /\ ~IsOk(last.res) => store = last.pre
        /\ IF last.flag
           THEN /\ Cardinality(store) = Cardinality(last.pre)
                /\ HasId(last.pre, last.id) =>
                       /\ HasId(store, last.id)
                       /\ FieldsChanged(last.pre, store, last.id) \subseteq {FlagField}
                       /\ FieldsChanged(last.pre, store, last.id) # {} =>
                              RowById(last.pre, last.id)[FlagField] = 0
                       /\ IsOk(last.res) => RowById(store, last.id)[FlagField] = 1
           ELSE IsOk(last.res) => store = Others(last.pre, last.id)

\* C23 as amended: deleteById changes nothing but its target.  In tombstone
\* mode the table holds as many records after the call as before it, and the
\* only fields that differ anywhere are two fields of the target: its
\* tombstone field, which goes from 0 to 1 and is 1 after a successful call,
\* and its updatedAt.  In physical mode a successful call removes exactly the
\* target, and every other record is as it was; a failed call changes
\* nothing.
C23_DeleteByIdFrameAmended ==
    last.op = "deleteDataById" =>
        /\ Others(store, last.id) = Others(last.pre, last.id)
        /\ ~IsOk(last.res) => store = last.pre
        /\ IF last.flag
           THEN /\ Cardinality(store) = Cardinality(last.pre)
                /\ HasId(last.pre, last.id) =>
                       /\ HasId(store, last.id)
                       /\ FieldsChanged(last.pre, store, last.id)
                              \subseteq {FlagField, UpdatedAtField}
                       /\ FlagField \in FieldsChanged(last.pre, store, last.id) =>
                              RowById(last.pre, last.id)[FlagField] = 0
                       /\ IsOk(last.res) => RowById(store, last.id)[FlagField] = 1
           ELSE IsOk(last.res) => store = Others(last.pre, last.id)

\* A record of a table of two has been tombstoned by deleteById, whose save()
\* was called a second or more after the record was last written.
C23_Witness ==
    /\ last.op = "deleteDataById"
    /\ last.flag
    /\ IsOk(last.res)
    /\ Cardinality(last.pre) = MaxId
    /\ FieldsChanged(last.pre, store, last.id) = {FlagField, UpdatedAtField}
    /\ \E r \in Others(last.pre, last.id) : r[FlagField] = 0

\* A record of a table of two has been removed by deleteById.
C23_PhysicalWitness ==
    /\ last.op = "deleteDataById"
    /\ ~last.flag
    /\ IsOk(last.res)
    /\ Cardinality(last.pre) = MaxId
    /\ Cardinality(store) = MaxId - 1

\* Two tombstone deleteById calls fetched the record before either wrote:
\* the second to write, its save() called in the second the first one's was,
\* returns true and changes nothing.
C23_BothReturnTrue ==
    /\ last.op = "deleteDataById"
    /\ last.flag
    /\ last.res = Ok("bool", TRUE)
    /\ HasId(last.pre, last.id)
    /\ Tombstoned(RowById(last.pre, last.id))
    /\ store = last.pre

\* C24 as claimed: updateById writes the fields of its patch and no other.
\* Whatever was written to the record between its read and its write (by a
\* tombstone deleteById, by an updateById with another patch), once it has
\* written every field outside its patch has the value it had just before
\* that write; a record tombstoned by then stays tombstoned when the patch
\* does not hold the tombstone field.
C24_UpdateKeepsOtherWrites ==
    (last.op = "updateDataById" /\ IsOk(last.res) /\ HasId(last.pre, last.id)) =>
        /\ HasId(store, last.id)
        /\ \A k \in SchemaFields \ DOMAIN last.data :
               RowById(store, last.id)[k] = RowById(last.pre, last.id)[k]
        /\ (FlagField \notin DOMAIN last.data /\ Tombstoned(RowById(last.pre, last.id)))
               => Tombstoned(RowById(store, last.id))

\* C24 as amended: updateById writes the fields of its patch, and updatedAt,
\* and no other.  Whatever was written to the record between its read and its
\* write (by a tombstone deleteById, by an updateById with another patch),
\* once it has written every field outside its patch other than updatedAt has
\* the value it had just before that write; a record tombstoned by then stays
\* tombstoned when the patch does not hold the tombstone field.
C24_UpdateKeepsOtherWritesAmended ==
    (last.op = "updateDataById" /\ IsOk(last.res) /\ HasId(last.pre, last.id)) =>
        /\ HasId(store, last.id)
        /\ \A k \in SchemaFields \ (DOMAIN last.data \cup {UpdatedAtField}) :
               RowById(store, last.id)[k] = RowById(last.pre, last.id)[k]
        /\ (FlagField \notin DOMAIN last.data /\ Tombstoned(RowById(last.pre, last.id)))
               => Tombstoned(RowById(store, last.id))

\* An updateById called save() before another call's save() was called, and
\* its statement was run after the other's: the record is left with the
\* earlier updatedAt.
C24_EarlierStamp ==
    /\ last.op = "updateDataById"
    /\ IsOk(last.res)
    /\ HasId(last.pre, last.id)
    /\ RowById(store, last.id)[UpdatedAtField] < RowById(last.pre, last.id)[UpdatedAtField]

\* An updateById read a live record, a deleteById tombstoned the record, and
\* the updateById then wrote a new name and another updatedAt.
C24_Witness ==
    /\ last.op = "updateDataById"
    /\ IsOk(last.res)
    /\ FlagField \notin DOMAIN last.data
    /\ last.read[FlagField] = 0
    /\ HasId(last.pre, last.id)
    /\ RowById(last.pre, last.id)[FlagField] = 1
    /\ RowById(store, last.id)[NameField] # RowById(last.pre, last.id)[NameField]
    /\ RowById(store, last.id)[UpdatedAtField] # RowById(last.pre, last.id)[UpdatedAtField]

\* An updateById wrote the tombstone field after another updateById, which
\* wrote the name after the first one's read: the first returns the name it
\* read, and the table holds the name the other wrote.
C24_DisjointPatches ==
    /\ last.op = "updateDataById"
    /\ IsOk(last.res)
    /\ DOMAIN last.data = {FlagField}
    /\ HasId(last.pre, last.id)
    /\ RowById(last.pre, last.id)[NameField] # last.read[NameField]
    /\ RowById(store, last.id)[NameField] = RowById(last.pre, last.id)[NameField]
    /\ last.res.val[NameField] = last.read[NameField]

\* The repository's page for the condition given, for the page, page size
\* and tombstone flag of the last call and the service's ordering.
RepositoryPage(c) ==
    getDataWithPagination(last.pre, c, last.data.page, last.data.pageSize,
                          PrimaryKey, "DESC", last.flag, NoTie).res

\* The records and the total of the last call are those of the repository's
\* page for the condition c; it fails as the repository's call does.
SameAsPage(c) ==
    IF IsOk(RepositoryPage(c))
    THEN /\ last.res.type = "envelope"
         /\ last.res.val.data = RepositoryPage(c).val.rows
         /\ last.res.val.totalCount = RepositoryPage(c).val.count
    ELSE last.res = RepositoryPage(c)

\* C25: with an empty search term the service's getDataWithPagination gives
\* the records and the total count of the repository's getDataWithPagination
\* for the condition the caller wrote, with no search clause, whatever the
\* search columns are and whatever earlier searches were given the same
\* condition object.
C25_EmptyTermIsGetPage ==
    (last.op = ServiceOp /\ last.data.searchBy = "") => SameAsPage(corig)

\* The same for a condition object that is as the caller wrote it.
C25_UntouchedCondition ==
    (last.op = ServiceOp /\ last.data.searchBy = "" /\ last.arg = corig) =>
        SameAsPage(corig)

\* What the call does give: the page for the object as earlier calls left it.
C25_PageOfObjectAsLeft ==
    (last.op = ServiceOp /\ last.data.searchBy = "") => SameAsPage(last.arg)

\* An empty-term call on an object that holds the clause of an earlier search.
C25_ClauseLeftBehind ==
    /\ last.op = ServiceOp
    /\ last.data.searchBy = ""
    /\ ~last.arg.isNull
    /\ OpOr \in DOMAIN last.arg.eq
    /\ OpOr \notin DOMAIN corig.eq
    /\ IsOk(last.res)
    /\ last.pre # {}
    /\ ~SameAsPage(corig)

\* The other reads of the table of the last call, under the condition c and
\* the tombstone flag of that call.
AllOf(c) == getAllData(last.pre, c, PrimaryKey, "DESC", last.flag, NoTie).res
ExistsOf(c) == dataExists(last.pre, c, last.flag).res
PageOf(c, page, pageSize) ==
    getDataWithPagination(last.pre, c, page, pageSize, PrimaryKey, "DESC", last.flag, NoTie).res

\* The page numbers and page sizes the reads are compared over: up to one
\* more than the table can hold.
Positive == 1..(MaxId + 1)

\* C26: on an unchanged table, for the condition of a count (the object as
\* handed to the count, and as the count left it) and its tombstone flag:
\* the count is the length of getAll's result and the total of getPage for
\* every page number and page size, and exists is true exactly when the
\* count is above 0.  When the count fails, so do the other three.
C26_AggregatesAgree ==
    last.op = "getTotalCount" =>
        /\ store = last.pre
        /\ \A c \in {last.arg, cobj} :
               IF IsOk(last.res)
               THEN /\ IsOk(AllOf(c)) /\ Len(AllOf(c).val) = last.res.val
                    /\ IsOk(ExistsOf(c)) /\ ExistsOf(c).val = (last.res.val > 0)
                    /\ \A page \in Positive, pageSize \in Positive :
                           /\ IsOk(PageOf(c, page, pageSize))
                           /\ PageOf(c, page, pageSize).val.count = last.res.val
               ELSE /\ AllOf(c) = last.res
                    /\ ExistsOf(c) = last.res
                    /\ \A page \in Positive, pageSize \in Positive :
                           PageOf(c, page, pageSize) = last.res

\* A count that left out a record of the table and counted another.
C26_Witness ==
    /\ last.op = "getTotalCount"
    /\ IsOk(last.res)
    /\ last.res.val = 1
    /\ Cardinality(last.pre) = MaxId
    /\ Len(AllOf(cobj).val) = 1

\* getAll for the arguments of the last page call, the store ordering the
\* records of equal order value as tie says.
AllInOrder(tie) ==
    getAllData(last.pre, last.arg, last.data.orderBy, last.data.orderDir, last.flag, tie).res

TotalPages(count) == Ceil(count, last.data.pageSize)

\* The last page call against one getAll result: the page is the stretch of
\* the result at its place (so the pages 1..totalPages in a row are the
\* result, each record on one page), a page before the last is full, a page
\* after the last is empty, and the total is the length of the result.
PageOfResult(all) ==
    /\ last.res.val.count = Len(all)
    /\ last.res.val.rows = Page(all, (last.data.page - 1) * last.data.pageSize, last.data.pageSize)
    /\ last.data.page < TotalPages(Len(all)) => Len(last.res.val.rows) = last.data.pageSize
    /\ last.data.page > TotalPages(Len(all)) => last.res.val.rows = <<>>

\* C27: on an unchanged table, for one condition, ordering, tombstone flag
\* and page size, the pages 1..totalPages in a row are getAll's result (every
\* matching record on exactly one page), the pages before the last are full,
\* and the pages after the last are empty with the same total.
C27_PagesPartition ==
    last.op = "getDataWithPagination" =>
        \A tie \in TieOrders :
            IF IsOk(last.res) THEN IsOk(AllInOrder(tie)) /\ PageOfResult(AllInOrder(tie).val)
            ELSE AllInOrder(tie) = last.res

\* No two matching records have the same value in the ordering field.
OrderValuesDiffer ==
    \A r, q \in Matched :
        r # q => OrderKey(r, last.data.orderBy) # OrderKey(q, last.data.orderBy)

\* Amended: the pages are the stretches of getAll's result when no two
\* matching records have the same order value.  When some have, a page still
\* has the total, the length and the order stated and holds matching records
\* only, each once, and it is the stretch of getAll's result under one of the
\* orders the store may give to the records of equal value.
C27_PagesPartitionDistinctOrder ==
    last.op = "getDataWithPagination" =>
        IF ~IsOk(last.res) THEN \A tie \in TieOrders : AllInOrder(tie) = last.res
        ELSE /\ OrderValuesDiffer =>
                    \A tie \in TieOrders : PageOfResult(AllInOrder(tie).val)
             /\ \E tie \in TieOrders : PageOfResult(AllInOrder(tie).val)
             /\ last.res.val.count = Cardinality(Matched)
             /\ SeqRange(last.res.val.rows) \subseteq Matched
             /\ Cardinality(SeqRange(last.res.val.rows)) = Len(last.res.val.rows)
             /\ InOrder(last.res.val.rows, last.data.orderBy, last.data.orderDir)

\* The second page of one record each, in the order of the names, of a table
\* of two records with different names.
C27_Witness ==
    /\ last.op = "getDataWithPagination" /\ IsOk(last.res)
    /\ last.data.orderBy = NameField
    /\ last.data.page = 2 /\ last.data.pageSize = 1
    /\ Cardinality(Matched) = 2
    /\ OrderValuesDiffer
    /\ Len(last.res.val.rows) = 1

\* A page past the last one.
C27_PastTheEnd ==
    /\ last.op = "getDataWithPagination" /\ IsOk(last.res)
    /\ last.res.val.count > 0
    /\ last.data.page > TotalPages(last.res.val.count)
    /\ last.res.val.rows = <<>>

\* The tombstone flag the last call is to run under: the default the
\* repository was constructed with when the caller gave none, the caller's
\* own otherwise.
FlagToUse ==
    IF last.flagArg = "default" THEN constructed.softDeleteDefaultValue
    ELSE last.flagArg = "on"

\* The records of the table a call can see under the flag: every record when
\* filtering is off, the records that are not tombstoned when it is on (none
\* on a repository constructed with the empty key, see C3).
InSight(tbl, flag) ==
    IF ~flag THEN tbl
    ELSE IF constructed.softDeleteKey = FlagField THEN Live(tbl)
    ELSE {}

\* A call that asks for filtering on a repository constructed with null for
\* its key is refused by the store (C3).
Refused(flag) == flag /\ constructed.softDeleteKey = NullKey

\* getDataById under the flag: the record of the id when the call can see
\* it, null otherwise.
GetByIdUnder(flag) ==
    LET seen == {r \in InSight(last.pre, flag) : r[PrimaryKey] = last.id}
    IN  /\ store = last.pre
        /\ IF Refused(flag) THEN ~IsOk(last.res)
           ELSE IF seen = {} THEN last.res = Ok("null", 0)
           ELSE last.res.type = "record" /\ last.res.val \in seen

\* updateDataById and deleteDataById under the flag.  A call that ended at
\* its fetch saw no record of the id.  A call that wrote had fetched a
\* record it could see; the delete then left the record in the table,
\* tombstoned, when the flag is on, and took it from the table when the flag
\* is off.
ByIdWriteUnder(flag) ==
    IF last.read = NoRow
    THEN /\ store = last.pre
         /\ ~IsOk(last.res)
         /\ ~Refused(flag) =>
                /\ \A r \in InSight(last.pre, flag) : r[PrimaryKey] # last.id
                /\ last.res = Throw("DataNotAvailable")
    ELSE /\ ~Refused(flag)
         /\ last.read \in InSight({last.read}, flag)
         /\ last.read[PrimaryKey] = last.id
         /\ IsOk(last.res)
         /\ Others(store, last.id) = Others(last.pre, last.id)
         /\ last.op = "deleteDataById" =>
                IF flag
                THEN /\ HasId(store, last.id) <=> HasId(last.pre, last.id)
                     /\ \A r \in store : r[PrimaryKey] = last.id => Tombstoned(r)
                ELSE ~HasId(store, last.id)

\* The records that satisfy what the condition object holds when the call
\* is made.
Asked(tbl) == Select(tbl, PassedWhere(last.arg))

\* A count or a page under the flag: with filtering off every record that
\* satisfies the condition is counted, tombstoned or not; with filtering on
\* no tombstoned record is counted or returned, and every record in sight
\* that satisfies the condition is.
ReadUnder(flag, count, rows) ==
    /\ store = last.pre
    /\ Refused(flag) => ~IsOk(last.res)
    /\ IsOk(last.res) =>
           /\ rows \subseteq InSight(last.pre, flag)
           /\ IF flag
              THEN /\ count <= Cardinality(InSight(last.pre, flag))
                   /\ count >= Cardinality(Asked(InSight(last.pre, flag)))
              ELSE count = Cardinality(Asked(last.pre))

\* deleteDataWithCondition under the flag: with filtering off the records
\* that satisfy the condition leave the table; with filtering on no record
\* leaves it, and the tombstoned records stay as they are.
DeleteWhereUnder(flag) ==
    /\ Refused(flag) => ~IsOk(last.res)
    /\ ~IsOk(last.res) => store = last.pre
    /\ IsOk(last.res) =>
           IF flag
           THEN /\ {r[PrimaryKey] : r \in store} = {r[PrimaryKey] : r \in last.pre}
                /\ last.pre \ InSight(last.pre, flag) \subseteq store
                /\ \A r \in store \ last.pre : Tombstoned(r)
                /\ last.res.val <= Cardinality(InSight(last.pre, flag))
           ELSE /\ store = last.pre \ Asked(last.pre)
                /\ last.res = Ok("int", Cardinality(Asked(last.pre)))

\* What C28 says of the last call.
StateAsClaimed ==
    CASE last.op = "getPrimaryKeyField" ->
             last.res = Ok("text", constructed.primaryKeyAttribute) /\ store = last.pre
      [] last.op = "Service.getPrimaryKeyField" ->
             last.res = Ok("text", constructed.primaryKeyAttribute) /\ store = last.pre
      [] last.op = "getSoftDeleteOption" ->
             last.res = Ok("bool", constructed.softDeleteDefaultValue) /\ store = last.pre
      [] last.op = "getDataById" -> GetByIdUnder(FlagToUse)
      [] last.op \in ByIdWrites -> ByIdWriteUnder(FlagToUse)
      [] last.op = "getTotalCount" ->
             ReadUnder(FlagToUse, last.res.val, {})
      [] last.op = ServiceOp ->
             ReadUnder(FlagToUse, last.res.val.totalCount, SeqRange(last.res.val.data))
      [] last.op = "deleteDataWithCondition" -> DeleteWhereUnder(FlagToUse)
      [] OTHER -> TRUE

\* C28: the repository and the service keep no state that a call changes:
\* after any calls, failed ones included, getPrimaryKeyField and
\* getSoftDeleteOption return what the repository was constructed with, a
\* call given no tombstone flag runs under the default it was constructed
\* with, and a call given a flag runs under the flag given.
C28_NoCrossCallState == StateAsClaimed

\* The default asked for after a delete by id made with the flag set against
\* it has failed and another has tombstoned or removed a record.
C28_Witness ==
    /\ last.op = "getSoftDeleteOption"
    /\ last.pre # {}
    /\ \E p \in BagToSet(inflight) : p.op = "deleteDataById" /\ p.flagArg # "default"

\* A call that failed under an explicit flag set against the default, on a
\* table with records.
C28_FailedUnderFlag ==
    /\ last.op \in ByIdOps
    /\ last.flagArg # "default"
    /\ FlagToUse # constructed.softDeleteDefaultValue
    /\ ~IsOk(last.res)
    /\ last.pre # {}

\* A read under the default that returns a tombstoned record, while a call
\* given the opposite flag is between its fetch and its write.
C28_DefaultWhileExplicit ==
    /\ last.op = "getDataById"
    /\ last.flagArg = "default"
    /\ last.res.type = "record"
    /\ Tombstoned(last.res.val)
    /\ \E p \in BagToSet(inflight) : p.flagArg = "on"

\* A call that ran under the default after an earlier call was given the
\* opposite flag and the same condition object.
C28_DefaultAfterExplicit ==
    /\ last.op \in CondOps \cup {ServiceOp}
    /\ last.flagArg = "default"
    /\ last.arg # corig
    /\ IsOk(last.res)

\* The handler of the last request ended at its existence check.
EndedAtCheck == last.res.val.calls = <<"dataExists">>

\* What C29 says of one request.
DispatchAsClaimed ==
    LET sent == last.res.val
    IN  /\ (EndedAtCheck /\ ~InScope(last.pre, last.id, getSoftDeleteOption)) =>
               /\ sent.status = 400
               /\ sent.message = ControllerMessage.DataNotAvailable
               /\ store = last.pre
        /\ EndedAtCheck => ~InScope(last.pre, last.id, getSoftDeleteOption)
        /\ sent.status = 200 =>
               /\ sent.calls = <<"dataExists", WriteOf(last.op)>>
               /\ last.read # NoRow
               /\ store = Controller_write(last.pre, last.op, last.read, last.data, Now).store
        /\ sent.status \in {200, 400, 500}
        /\ sent.status = 500 => (sent.data = NoData /\ store = last.pre)
        /\ sent.status = 400 => EndedAtCheck

\* C29: Controller.updateData and Controller.deleteData, each request handled
\* by itself, answer 400 with the record-not-available message and ask no
\* write of the service whenever no record with the id is in scope under the
\* default tombstone policy; they answer 200 only when the write of the
\* service has returned; and when the service throws they answer 500 with
\* empty data.
C29_DispatchOutcome ==
    last.op \in ControllerOps => DispatchAsClaimed

\* Apart from the repositories that filter by default and were constructed
\* without a tombstone key (see C3), C29 holds.
C29_WithTombstoneField ==
    (last.op \in ControllerOps /\ (getSoftDeleteOption => softDeleteKey = FlagField)) =>
        DispatchAsClaimed

\* On those repositories no request gets past the check, and the table is
\* left as it was: constructed with null, the check itself fails and every
\* request is answered 500; constructed with the empty string, the check finds
\* no record and every request is answered 400.
C29_CheckFails ==
    (last.op \in ControllerOps /\ getSoftDeleteOption /\ softDeleteKey # FlagField) =>
        /\ last.res.val.status = IF softDeleteKey = NullKey THEN 500 ELSE 400
        /\ last.res.val.calls = <<"dataExists">>
        /\ store = last.pre

\* A request whose handler met no write of another request between its
\* awaits is answered as the handler run in one piece answers it.
C29_HandledAlone ==
    (last.op \in ControllerOps /\ (EndedAtCheck \/ last.read \in last.pre)) =>
        /\ last.res = IF last.op = "Controller.updateData"
                      THEN Controller_updateData(last.pre, last.id, last.data).res
                      ELSE Controller_deleteData(last.pre, last.id).res
        /\ store = IF last.op = "Controller.updateData"
                   THEN Controller_updateData(last.pre, last.id, last.data).store
                   ELSE Controller_deleteData(last.pre, last.id).store

\* A handler goes past its check only when the check found a record in scope.
C29_CheckedInScope ==
    [][\A p \in BagToSet(inflight') :
           (p \notin BagToSet(inflight) /\ p.pc = "checked") =>
               InScope(store, p.id, getSoftDeleteOption)]_vars

\* A request for a tombstoned record, answered 400.
C29_TombstonedIs400 ==
    /\ last.op \in ControllerOps
    /\ HasId(last.pre, last.id)
    /\ last.res.val.status = 400

\* A request answered 200 after its write.
C29_Written ==
    /\ last.op \in ControllerOps
    /\ last.res.val.status = 200
    /\ store # last.pre

\* A request whose record another request removed after its check: the
\* service throws at its fetch, and the request is answered 500.
C29_RemovedAfterCheck ==
    /\ last.op \in ControllerOps
    /\ last.res.val.status = 500
    /\ last.res.val.calls = <<"dataExists", WriteOf(last.op)>>

\* A record created through the controller, answered 201 with the record.
C29_Created ==
    /\ last.op = "Controller.saveData"
    /\ last.res.val.status = 201
    /\ last.res.val.data.saveData \in store

====
